---- MODULE Spec2Model ----
(***************************************************************************)
(* A model of the PDF-to-exam pipeline of                                  *)
(* backend/app/services/pdf_processing.py (class PDFProcessor), and of the *)
(* handler that runs it, ExamHandler.upload_pdf; and of the test sessions   *)
(* of backend/app/api/handlers/session_handler.py (class SessionHandler).  *)
(*                                                                         *)
(* The inference service is the environment: every call to                 *)
(* client.chat.completions.create either raises or returns a response,     *)
(* and the response is drawn from a small pool of the shapes the service   *)
(* can produce (no function call, arguments that are not JSON, a JSON      *)
(* object with missing or wrongly typed members, a well-formed object).    *)
(*                                                                         *)
(* Optional[T] values are sequences: None is <<>> and a set value v is     *)
(* <<v>>.  A python dict is a function whose DOMAIN is its key set.        *)
(***************************************************************************)
EXTENDS Integers, Sequences, FiniteSets, TLC

VARIABLES
    pc,                 \* position of the running coroutine
    document,           \* the PDF: None when unreadable, else its page count
    requests,           \* history: the requests sent to the inference service
    in_flight,          \* the coroutine is suspended in `await asyncio.to_thread(...)`
    images,             \* List[str]: the page images, one per page
    page_num,           \* enumerate() index of the extraction loops (0-based)
    metadata,           \* ExamMetadata
    diagrams,           \* List[Diagram] being built / returned by _extract_diagrams
    questions,          \* List[Question] being built / returned by _extract_questions
    diagram_log,        \* history: per called page, what its response amounted to
    question_log,       \* history: per called page, what its response amounted to
    processed_exam,     \* ProcessedExam built by _structure_data
    question_idx,       \* i, the enumerate() index of the answer loop (0-based)
    updated_questions,  \* List[Question] being built by _generate_answers
    answer_log,         \* history: per question, the requests issued and their responses
    final_exam,         \* ProcessedExam returned by _generate_answers
    metadata_log,       \* history: the response to the metadata request
    upload_pc,          \* position of upload_pdf ("idle": process_pdf runs alone)
    temp_dir,           \* upload_pdf's local temp_dir: None or the directory's path
    files,              \* the paths that exist on disk
    exam_obj,           \* `exam`, the Exam object of the session
    db_exam,            \* the committed row of the exam
    outcome,            \* how upload_pdf ended
    cleanup_log,        \* history: what cleanup_temp_directory did
    exam_exists,        \* the table of exams holds the row of the exam
    loaded_exam,        \* the columns of `exam` as the session loaded them
    create_call,        \* where the call of create_exam stands, and how it ended
    exam_call,          \* the status of the last update_exam or delete_exam call
    tests,              \* the rows of tests, by id: None once deleted, else Some(row)
    attempts,           \* the committed rows of test_attempts, by id
    question_results,   \* the committed rows of question_results, in insertion order
    calls               \* per request in flight: where its handler call stands

examVars == <<exam_exists, loaded_exam, create_call, exam_call>>
uploadVars == <<upload_pc, temp_dir, files, exam_obj, db_exam, outcome, cleanup_log, examVars>>
extractVars == <<images, page_num, diagrams, questions, diagram_log, question_log>>
answerVars == <<question_idx, updated_questions, answer_log, final_exam>>
sessionVars == <<tests, attempts, question_results, calls>>

vars == <<pc, document, requests, in_flight, metadata, extractVars, processed_exam, answerVars,
          metadata_log, uploadVars, sessionVars>>

(***************************************************************************)
(* Bounds of the model.                                                    *)
(***************************************************************************)
MaxPages == 2           \* pages of the document
MaxItems == 2           \* diagrams / questions reported in one page response
MaxLongPages == 4       \* pages of a document in the runs on long documents
MaxCalls == 2           \* handler calls of the sessions that are in flight at once
MaxAttempts == 2        \* rows of test_attempts
MaxTests == 1           \* rows of tests
MaxExamPages == 1       \* pages of a document in the runs with update_exam and delete_exam

(***************************************************************************)
(* Python values.                                                          *)
(***************************************************************************)
None == <<>>
Some(v) == <<v>>

\* `x` used as a condition, for x: Optional[str]: None and "" are falsy.
Truthy(x) == x # None /\ x[1] # ""

\* JSON values as json.loads yields them: a string, null, an integer, an
\* array or an object.  JArr stands for the values pydantic rejects for a
\* str or int field (arrays and objects).
JStr(s) == [ty |-> "str", s |-> s]
JNull == [ty |-> "null", s |-> ""]
JInt(n) == [ty |-> "int", s |-> "", n |-> n]
\* A JSON array of the given values and a JSON object of the given members.
JList(l) == [ty |-> "array", s |-> "", items |-> l]
JObj(d) == [ty |-> "object", s |-> "", members |-> d]
JArr == JList(<<>>)

\* dict.get(key, default)
DictGet(d, key, default) == IF key \in DOMAIN d THEN d[key] ELSE default

\* pydantic validation of a field declared `str`
ValidStr(v) == v.ty = "str"
\* pydantic validation of a field declared `Optional[str]`
ValidOptStr(v) == v.ty \in {"str", "null"}
\* the python value of a JSON string or null
OptStr(v) == IF v.ty = "str" THEN Some(v.s) ELSE None
\* int(s) for the strings of the model that are decimal numerals.
IsNumeral(s) == s \in {"7", "60"}
IntOfNumeral(s) == IF s = "7" THEN 7 ELSE 60
\* pydantic validation and python value of a field declared `Optional[int]`:
\* a string that is a numeral is converted to the integer.
ValidOptInt(v) == v.ty \in {"int", "null"} \/ (v.ty = "str" /\ IsNumeral(v.s))
OptInt(v) ==
    IF v.ty = "int" THEN Some(v.n)
    ELSE IF v.ty = "str" THEN Some(IntOfNumeral(v.s))
    ELSE None
\* pydantic validation and python value of a field declared `Dict[str, int]`:
\* an object whose members are integers or numeral strings.
ValidIntDict(v) ==
    /\ v.ty = "object"
    /\ \A k \in DOMAIN v.members : ValidOptInt(v.members[k]) /\ v.members[k].ty # "null"
IntDict(v) == [k \in DOMAIN v.members |-> OptInt(v.members[k])[1]]
\* pydantic validation and python value of a field declared `List[str]`:
\* an array of strings.
ValidStrList(v) == v.ty = "array" /\ \A k \in 1..Len(v.items) : ValidStr(v.items[k])
StrList(v) == [k \in 1..Len(v.items) |-> v.items[k].s]

\* Concatenation of a sequence of sequences, in order.
RECURSIVE Flatten(_)
Flatten(ss) == IF ss = <<>> THEN <<>> ELSE Head(ss) \o Flatten(Tail(ss))

\* Sequences over S of length at most n.
SeqUpTo(S, n) == UNION {[1..k -> S] : k \in 0..n}

(***************************************************************************)
(* Responses of the inference service to a function-calling request.       *)
(*   raise    : chat.completions.create raised                             *)
(*   no_call  : the message carries no function_call                       *)
(*   bad_json : function_call.arguments is not valid JSON                  *)
(*   call     : function_call.arguments is the JSON object `payload`       *)
(***************************************************************************)
Raises == [kind |-> "raise", payload |-> <<>>]
NoCall == [kind |-> "no_call", payload |-> <<>>]
BadJson == [kind |-> "bad_json", payload |-> <<>>]
Call(payload) == [kind |-> "call", payload |-> payload]

\* A request to chat.completions.create: the function it names ("" for a
\* free-text completion), the page or question it is about (0 for the
\* metadata request) and the images it carries.
Request(function, item, imgs) == [function |-> function, item |-> item, images |-> imgs]

\* The request of one page of an extraction loop: that page's image only.
PageRequest(function, page, imgs) == Request(function, page, <<imgs[page]>>)

\* The default of diagram_data.get("position", {"x": 0, "y": 0}), and a
\* position the service reports: as JSON, and as the validated dict.
DefaultPosition == JObj([x |-> JInt(0), y |-> JInt(0)])
JsonPosition == JObj([x |-> JInt(10), y |-> JInt(20)])
SomePosition == [x |-> 10, y |-> 20]

(***************************************************************************)
(* The exam upload_pdf works on, and the state outside an upload.          *)
(***************************************************************************)
\* The columns of the exam row that upload_pdf assigns.  questions_json is
\* a record with `kind`: "none", "exam" (with the artifact) or "error".
NoQuestionsJson == [kind |-> "none"]
StoredExam == [title |-> "Draft", pdf_filename |-> None, questions_json |-> NoQuestionsJson]

\* The exam object of the session: the columns and the attribute `status`
\* (None until upload_pdf assigns it).
SessionExam(row) ==
    [title |-> row.title, pdf_filename |-> row.pdf_filename,
     questions_json |-> row.questions_json, status |-> None]

\* No call of create_exam.
NoCreate == [at |-> "idle", outcome |-> "none"]

\* The exam has its row, and no call of create_exam, update_exam or
\* delete_exam has been made.
StoredOnly ==
    /\ exam_exists = TRUE
    /\ loaded_exam = StoredExam
    /\ create_call = NoCreate
    /\ exam_call = None

NoUpload ==
    /\ upload_pc = "idle"
    /\ temp_dir = None
    /\ files = {}
    /\ exam_obj = SessionExam(StoredExam)
    /\ db_exam = StoredExam
    /\ outcome = "none"
    /\ cleanup_log = "none"
    /\ StoredOnly

\* The requests that may call the session handlers, each with a database
\* session of its own (get_db), and the state with no test session.
Callers == 1..MaxCalls
Idle == [at |-> "idle", result |-> None]

NoSessions ==
    /\ tests = <<>>
    /\ attempts = <<>>
    /\ question_results = <<>>
    /\ calls = [c \in Callers |-> Idle]

(***************************************************************************)
(* _extract_diagrams                                                       *)
(***************************************************************************)
\* Members of the "diagrams" array the service may report for a page.
FullDiagramItem == [id |-> JStr("d1"), description |-> JStr("figure"),
                    position |-> JsonPosition, question_number |-> JStr("3")]
BareDiagramItem == [id |-> JStr("d1"), description |-> JStr("figure")]
NullDiagramItem == [id |-> JStr("d2"), description |-> JStr("figure"),
                    position |-> JsonPosition, question_number |-> JNull]
NoIdDiagramItem == [description |-> JStr("figure"), position |-> JsonPosition]
ArrayIdDiagramItem == [id |-> JArr, description |-> JStr("figure")]
NullPositionDiagramItem == [id |-> JStr("d1"), description |-> JStr("figure"),
                            position |-> JNull]
WordPositionDiagramItem == [id |-> JStr("d1"), description |-> JStr("figure"),
                            position |-> JObj([x |-> JStr("left"), y |-> JInt(20)])]

GoodDiagramItems == {FullDiagramItem, BareDiagramItem, NullDiagramItem}
DiagramItems ==
    GoodDiagramItems \cup {NoIdDiagramItem, ArrayIdDiagramItem,
                          NullPositionDiagramItem, WordPositionDiagramItem}

\* The responses the service may give to one page's diagram request.
DiagramResponses ==
    {Raises, NoCall, BadJson, Call(<<>>)}
    \cup {Call([diagrams |-> l]) : l \in SeqUpTo(GoodDiagramItems, MaxItems)}
    \cup {Call([diagrams |-> <<i>>]) : i \in DiagramItems}
    \cup {Call([diagrams |-> <<FullDiagramItem, i>>]) : i \in DiagramItems}

\* Diagram(id=diagram_data["id"], ...) raises KeyError on a missing "id" or
\* "description" and ValidationError on a wrongly typed member.
DiagramItemOk(d) ==
    /\ "id" \in DOMAIN d /\ ValidStr(d.id)
    /\ "description" \in DOMAIN d /\ ValidStr(d.description)
    /\ ValidIntDict(DictGet(d, "position", DefaultPosition))
    /\ ValidOptStr(DictGet(d, "question_number", JNull))

\* Mutant of NewDiagram: the diagram is tagged with the 0-based loop index.
NewDiagramZeroBased(d, pn, image) ==
    [id |-> d.id.s,
     base64_image |-> image,
     description |-> d.description.s,
     page_number |-> pn,
     position |-> IntDict(DictGet(d, "position", DefaultPosition)),
     question_number |-> OptStr(DictGet(d, "question_number", JNull))]

NewDiagram(d, pn, image) ==
    [id |-> d.id.s,
     base64_image |-> image,
     description |-> d.description.s,
     page_number |-> pn + 1,
     position |-> IntDict(DictGet(d, "position", DefaultPosition)),
     question_number |-> OptStr(DictGet(d, "question_number", JNull))]

\* One iteration of the page loop: what the response amounts to.  ok = FALSE
\* when anything between the request and the last append raised.
DiagramPageOutcome(resp, pn, image) ==
    IF resp.kind # "call" THEN [ok |-> FALSE, items |-> <<>>]
    ELSE LET l == DictGet(resp.payload, "diagrams", <<>>) IN
         IF \A k \in 1..Len(l) : DiagramItemOk(l[k])
         THEN [ok |-> TRUE, items |-> [k \in 1..Len(l) |-> NewDiagram(l[k], pn, image)]]
         ELSE [ok |-> FALSE, items |-> <<>>]

\* `except Exception: return []` around the whole page loop.
DiagramsOnFailure(sofar) == <<>>

\* One iteration of the page loop up to its await: the request of the page
\* is handed to the service and the coroutine is suspended.
ExtractDiagramsRequest ==
    /\ pc = "extract_diagrams"
    /\ ~in_flight
    /\ page_num < Len(images)
    /\ requests' = Append(requests, PageRequest("extract_diagrams", page_num + 1, images))
    /\ in_flight' = TRUE
    /\ UNCHANGED <<pc, document, metadata, extractVars, processed_exam, answerVars,
                   metadata_log, uploadVars, sessionVars>>

\* The rest of the iteration: the await ends with the response or with the
\* exception of the service.
ExtractDiagramsPage(pool) ==
    /\ pc = "extract_diagrams"
    /\ in_flight
    /\ in_flight' = FALSE
    /\ \E resp \in pool :
         LET out == DiagramPageOutcome(resp, page_num, images[page_num + 1]) IN
         /\ diagram_log' = Append(diagram_log,
                                  [ok |-> out.ok, items |-> out.items, response |-> resp])
         /\ IF out.ok
            THEN /\ diagrams' = diagrams \o out.items
                 /\ page_num' = page_num + 1
                 /\ pc' = pc
            ELSE /\ diagrams' = DiagramsOnFailure(diagrams)
                 /\ page_num' = page_num
                 /\ pc' = "diagrams_done"
    /\ UNCHANGED <<requests, document, metadata_log, uploadVars, sessionVars, images, metadata, questions, question_log, processed_exam,
                   answerVars>>

ExtractDiagramsReturn ==
    /\ pc = "extract_diagrams"
    /\ ~in_flight
    /\ page_num = Len(images)
    /\ pc' = "diagrams_done"
    /\ UNCHANGED <<in_flight, document, metadata_log, uploadVars, sessionVars, requests, metadata, extractVars, processed_exam, answerVars>>

\* convert_from_path(pdf_path, dpi=200, fmt='PNG') on a readable document
\* of n pages: the PIL images of the pages, in page order.
ConvertFromPath(n) == [k \in 1..n |-> [page |-> k]]

\* image.save(buffer, format='PNG'); base64.b64encode(...).decode()
Base64Png(image) == "png" \o ToString(image.page)

\* Mutant of Base64Images: every image is put in front of the list.
RECURSIVE Base64ImagesPrepended(_)
Base64ImagesPrepended(pil_images) ==
    IF pil_images = <<>> THEN <<>>
    ELSE Base64ImagesPrepended(Tail(pil_images)) \o <<Base64Png(Head(pil_images))>>

\* The loop of _rasterize_pdf: base64_images.append(img_str) per image.
RECURSIVE Base64Images(_)
Base64Images(pil_images) ==
    IF pil_images = <<>> THEN <<>>
    ELSE <<Base64Png(Head(pil_images))>> \o Base64Images(Tail(pil_images))

\* What _rasterize_pdf returns for a readable document of n pages.
PageImages(n) == Base64Images(ConvertFromPath(n))

UntitledExam == [title |-> "Untitled Exam", subject |-> None, topic |-> None,
                 total_questions |-> None, duration_minutes |-> None,
                 difficulty_level |-> None]

EmptyExam == [metadata |-> UntitledExam, diagrams |-> <<>>, questions |-> <<>>]

\* The answer stage has not begun.
NoAnswersYet ==
    /\ question_idx = 0
    /\ updated_questions = <<>>
    /\ answer_log = <<>>
    /\ final_exam = EmptyExam

InitDiagrams ==
    /\ pc = "extract_diagrams"
    /\ \E n \in 0..MaxPages : document = Some(n) /\ images = PageImages(n)
    /\ requests = <<>>
    /\ in_flight = FALSE
    /\ metadata_log = <<>>
    /\ NoUpload
    /\ NoSessions
    /\ page_num = 0
    /\ metadata = UntitledExam
    /\ diagrams = <<>>
    /\ questions = <<>>
    /\ diagram_log = <<>>
    /\ question_log = <<>>
    /\ processed_exam = EmptyExam
    /\ NoAnswersYet

NextDiagrams ==
    \/ ExtractDiagramsRequest
    \/ ExtractDiagramsPage(DiagramResponses)
    \/ ExtractDiagramsReturn

SpecDiagrams == InitDiagrams /\ [][NextDiagrams]_vars

(***************************************************************************)
(* _extract_questions                                                      *)
(***************************************************************************)
\* Members of the "questions" array the service may report for a page.
FullQuestionItem == [id |-> JStr("q1"), question_number |-> JStr("3"),
                     question_text |-> JStr("text"), options |-> JList(<<JStr("x"), JStr("y")>>),
                     diagram_ids |-> JList(<<JStr("d1")>>)]
BareQuestionItem == [id |-> JStr("q1"), question_text |-> JStr("text"),
                     options |-> JList(<<>>)]
NullQuestionItem == [id |-> JStr("q2"), question_number |-> JNull,
                     question_text |-> JStr("text"), options |-> JList(<<JStr("x"), JStr("y")>>),
                     diagram_ids |-> JList(<<>>)]
NoOptionsQuestionItem == [id |-> JStr("q1"), question_text |-> JStr("text")]
ArrayTextQuestionItem == [id |-> JStr("q1"), question_text |-> JArr,
                          options |-> JList(<<JStr("x"), JStr("y")>>)]
NullOptionsQuestionItem == [id |-> JStr("q1"), question_text |-> JStr("text"),
                            options |-> JNull]
IntOptionsQuestionItem == [id |-> JStr("q1"), question_text |-> JStr("text"),
                           options |-> JList(<<JInt(1), JInt(2)>>)]
NullDiagramIdsQuestionItem == [id |-> JStr("q1"), question_text |-> JStr("text"),
                               options |-> JList(<<JStr("x"), JStr("y")>>),
                               diagram_ids |-> JNull]

GoodQuestionItems == {FullQuestionItem, BareQuestionItem, NullQuestionItem}
QuestionItems ==
    GoodQuestionItems \cup {NoOptionsQuestionItem, ArrayTextQuestionItem,
                           NullOptionsQuestionItem, IntOptionsQuestionItem,
                           NullDiagramIdsQuestionItem}

\* The responses the service may give to one page's question request.
QuestionResponses ==
    {Raises, NoCall, BadJson, Call(<<>>)}
    \cup {Call([questions |-> l]) : l \in SeqUpTo(GoodQuestionItems, MaxItems)}
    \cup {Call([questions |-> <<i>>]) : i \in QuestionItems}
    \cup {Call([questions |-> <<FullQuestionItem, i>>]) : i \in QuestionItems}

\* Question(id=question_data["id"], ...) raises KeyError on a missing "id",
\* "question_text" or "options" and ValidationError on a wrongly typed member.
QuestionItemOk(q) ==
    /\ "id" \in DOMAIN q /\ ValidStr(q.id)
    /\ "question_text" \in DOMAIN q /\ ValidStr(q.question_text)
    /\ "options" \in DOMAIN q /\ ValidStrList(q.options)
    /\ ValidStrList(DictGet(q, "diagram_ids", JList(<<>>)))
    /\ ValidOptStr(DictGet(q, "question_number", JNull))

NewQuestion(q, pn) ==
    [id |-> q.id.s,
     question_text |-> q.question_text.s,
     options |-> StrList(q.options),
     correct_answer |-> None,
     hint |-> None,
     explanation |-> None,
     confidence |-> None,
     diagram_ids |-> StrList(DictGet(q, "diagram_ids", JList(<<>>))),
     page_number |-> pn + 1,
     question_number |-> OptStr(DictGet(q, "question_number", JNull)),
     diagrams |-> <<>>]

\* Mutant of QuestionPageOutcome: the questions of a page are collected in
\* the reverse of the response order.
QuestionPageOutcomeReversed(resp, pn) ==
    IF resp.kind # "call" THEN [ok |-> FALSE, items |-> <<>>]
    ELSE LET l == DictGet(resp.payload, "questions", <<>>) IN
         IF \A k \in 1..Len(l) : QuestionItemOk(l[k])
         THEN [ok |-> TRUE,
               items |-> [k \in 1..Len(l) |-> NewQuestion(l[Len(l) + 1 - k], pn)]]
         ELSE [ok |-> FALSE, items |-> <<>>]

QuestionPageOutcome(resp, pn) ==
    IF resp.kind # "call" THEN [ok |-> FALSE, items |-> <<>>]
    ELSE LET l == DictGet(resp.payload, "questions", <<>>) IN
         IF \A k \in 1..Len(l) : QuestionItemOk(l[k])
         THEN [ok |-> TRUE, items |-> [k \in 1..Len(l) |-> NewQuestion(l[k], pn)]]
         ELSE [ok |-> FALSE, items |-> <<>>]

\* `except Exception: return []` around the whole page loop.
QuestionsOnFailure(sofar) == <<>>

\* One iteration of the page loop up to its await.
ExtractQuestionsRequest ==
    /\ pc = "extract_questions"
    /\ ~in_flight
    /\ page_num < Len(images)
    /\ requests' = Append(requests, PageRequest("extract_questions", page_num + 1, images))
    /\ in_flight' = TRUE
    /\ UNCHANGED <<pc, document, metadata, extractVars, processed_exam, answerVars,
                   metadata_log, uploadVars, sessionVars>>

\* The rest of the iteration, from the end of the await.
ExtractQuestionsPage(pool) ==
    /\ pc = "extract_questions"
    /\ in_flight
    /\ in_flight' = FALSE
    /\ \E resp \in pool :
         LET out == QuestionPageOutcome(resp, page_num) IN
         /\ question_log' = Append(question_log,
                                   [ok |-> out.ok, items |-> out.items, response |-> resp])
         /\ IF out.ok
            THEN /\ questions' = questions \o out.items
                 /\ page_num' = page_num + 1
                 /\ pc' = pc
            ELSE /\ questions' = QuestionsOnFailure(questions)
                 /\ page_num' = page_num
                 /\ pc' = "questions_done"
    /\ UNCHANGED <<requests, document, metadata_log, uploadVars, sessionVars, images, metadata, diagrams, diagram_log, processed_exam,
                   answerVars>>

ExtractQuestionsReturn ==
    /\ pc = "extract_questions"
    /\ ~in_flight
    /\ page_num = Len(images)
    /\ pc' = "questions_done"
    /\ UNCHANGED <<in_flight, document, metadata_log, uploadVars, sessionVars, requests, metadata, extractVars, processed_exam, answerVars>>

InitQuestions ==
    /\ pc = "extract_questions"
    /\ \E n \in 0..MaxPages : document = Some(n) /\ images = PageImages(n)
    /\ requests = <<>>
    /\ in_flight = FALSE
    /\ metadata_log = <<>>
    /\ NoUpload
    /\ NoSessions
    /\ page_num = 0
    /\ metadata = UntitledExam
    /\ diagrams = <<>>
    /\ questions = <<>>
    /\ diagram_log = <<>>
    /\ question_log = <<>>
    /\ processed_exam = EmptyExam
    /\ NoAnswersYet

NextQuestions ==
    \/ ExtractQuestionsRequest
    \/ ExtractQuestionsPage(QuestionResponses)
    \/ ExtractQuestionsReturn

SpecQuestions == InitQuestions /\ [][NextQuestions]_vars

(***************************************************************************)
(* _structure_data                                                         *)
(***************************************************************************)
\* Mutant of Linked: question numbers compared after dropping a letter suffix.
WithoutSuffix(qn) == IF qn = Some("3A") THEN Some("3") ELSE qn

LinkedNormalised(diagram, question) ==
    /\ Truthy(diagram.question_number)
    /\ Truthy(question.question_number)
    /\ WithoutSuffix(diagram.question_number) = WithoutSuffix(question.question_number)

\* Mutant of Linked: equality alone, so that None matches None.
LinkedNoneMatches(diagram, question) ==
    diagram.question_number = question.question_number

\* `diagram.question_number and question.question_number and
\*  diagram.question_number == question.question_number`
Linked(diagram, question) ==
    /\ Truthy(diagram.question_number)
    /\ Truthy(question.question_number)
    /\ diagram.question_number = question.question_number

\* The dict appended to question_diagrams for a linked diagram.
DiagramSummary(diagram) ==
    [id |-> diagram.id,
     description |-> diagram.description,
     page_number |-> diagram.page_number,
     position |-> diagram.position,
     base64_image |-> diagram.base64_image]

\* Mutant of QuestionDiagrams: the linked diagrams are added to the ones the
\* question already carries instead of replacing them.
RECURSIVE LinkedSummaries(_, _)
LinkedSummaries(question, ds) ==
    IF ds = <<>> THEN <<>>
    ELSE (IF /\ Truthy(Head(ds).question_number)
             /\ Head(ds).question_number = question.question_number
          THEN <<[id |-> Head(ds).id,
                  description |-> Head(ds).description,
                  page_number |-> Head(ds).page_number,
                  position |-> Head(ds).position,
                  base64_image |-> Head(ds).base64_image]>>
          ELSE <<>>)
         \o LinkedSummaries(question, Tail(ds))

QuestionDiagramsAccumulated(question, ds) ==
    question.diagrams \o LinkedSummaries(question, ds)

\* The inner loop over diagrams for one question.
RECURSIVE QuestionDiagrams(_, _)
QuestionDiagrams(question, ds) ==
    IF ds = <<>> THEN <<>>
    ELSE (IF Linked(Head(ds), question) THEN <<DiagramSummary(Head(ds))>> ELSE <<>>)
         \o QuestionDiagrams(question, Tail(ds))

\* Mutant of CountedMetadata: the count fills in only a missing value.
CountedMetadataIfUnset(md, qs) ==
    IF md.total_questions = None THEN [md EXCEPT !.total_questions = Some(Len(qs))] ELSE md

\* Mutant of CountedMetadata: a new metadata object with the title and the
\* count only.
CountedMetadataFresh(md, qs) ==
    [title |-> md.title, subject |-> None, topic |-> None,
     total_questions |-> Some(Len(qs)), duration_minutes |-> None,
     difficulty_level |-> None]

\* metadata.total_questions = len(questions)
CountedMetadata(md, qs) == [md EXCEPT !.total_questions = Some(Len(qs))]

StructureData(md, ds, qs) ==
    [metadata |-> CountedMetadata(md, qs),
     diagrams |-> ds,
     questions |-> [k \in 1..Len(qs) |->
                      [qs[k] EXCEPT !.diagrams = QuestionDiagrams(qs[k], ds)]]]

\* process_pdf, step 4.  The metadata object is updated in place.
Structure ==
    /\ pc = "structure"
    /\ processed_exam' = StructureData(metadata, diagrams, questions)
    /\ metadata' = processed_exam'.metadata
    /\ pc' = "structured"
    /\ UNCHANGED <<in_flight, document, metadata_log, uploadVars, sessionVars, requests, extractVars, answerVars>>

\* Running the Linker again on the same extractor outputs.
Restructure ==
    /\ pc = "structured"
    /\ processed_exam' = StructureData(metadata, diagrams, questions)
    /\ metadata' = processed_exam'.metadata
    /\ pc' = "restructured"
    /\ UNCHANGED <<in_flight, document, metadata_log, uploadVars, sessionVars, requests, extractVars, answerVars>>

\* Extractor outputs handed to the Linker: the k-th diagram and the k-th
\* question come from page k, with any of the question numbers below.
QuestionNumbers == {None, Some(""), Some("3"), Some("3A")}

DiagramOf(k, qn) ==
    [NewDiagram(FullDiagramItem, k - 1, PageImages(k)[k]) EXCEPT
        !.id = "d" \o ToString(k), !.question_number = qn]

QuestionOf(k, qn) ==
    [NewQuestion(FullQuestionItem, k - 1) EXCEPT
        !.id = "q" \o ToString(k), !.question_number = qn]

InitLinker ==
    /\ pc = "structure"
    /\ \E n \in 0..MaxPages :
         /\ document = Some(n)
         /\ images = PageImages(n)
         /\ page_num = n
         /\ \E dn \in 0..n : \E f \in [1..dn -> QuestionNumbers] :
              diagrams = [k \in 1..dn |-> DiagramOf(k, f[k])]
         /\ \E qn \in 0..n : \E f \in [1..qn -> QuestionNumbers] :
              questions = [k \in 1..qn |-> QuestionOf(k, f[k])]
    /\ requests = <<>>
    /\ in_flight = FALSE
    /\ metadata_log = <<>>
    /\ NoUpload
    /\ NoSessions
    /\ \E tq \in {None, Some(0), Some(7)} :
         metadata = [UntitledExam EXCEPT !.total_questions = tq]
    /\ diagram_log = <<>>
    /\ question_log = <<>>
    /\ processed_exam = EmptyExam
    /\ NoAnswersYet

NextLinker == Structure \/ Restructure

SpecLinker == InitLinker /\ [][NextLinker]_vars

(***************************************************************************)
(* _generate_answers                                                       *)
(***************************************************************************)
\* JSON objects the service may give as an answer.
FullAnswer == [correct_answer |-> JStr("A"), explanation |-> JStr("because"),
               hint |-> JStr("think"), confidence |-> JStr("HIGH")]
\* the shape the fallback prompt asks for: no "confidence" member
PlainAnswer == [correct_answer |-> JStr("B"), explanation |-> JStr("because"),
                hint |-> JStr("think")]
UnsureAnswer == [correct_answer |-> JStr("UNSURE"), explanation |-> JStr("unclear"),
                 hint |-> JStr("review"), confidence |-> JStr("LOW")]
OddAnswer == [correct_answer |-> JStr("A"), explanation |-> JNull,
              confidence |-> JStr("CERTAIN")]
EmptyAnswer == <<>>
ArrayAnswer == [correct_answer |-> JArr, explanation |-> JStr("because"),
                hint |-> JStr("think"), confidence |-> JStr("HIGH")]

AnswerObjects == {FullAnswer, PlainAnswer, UnsureAnswer, OddAnswer, EmptyAnswer,
                  ArrayAnswer}

\* Responses to the function-calling request of one question.
StructuredAnswerResponses ==
    {Raises, NoCall, BadJson} \cup {Call(a) : a \in AnswerObjects}

\* Free text is a sequence of tokens: an opening brace, a closing brace, a
\* run of other characters, or the member list of a JSON object.
LBrace == [t |-> "{", members |-> <<>>]
RBrace == [t |-> "}", members |-> <<>>]
Words == [t |-> "words", members |-> <<>>]
Members(a) == [t |-> "members", members |-> a]

Object(a) == IF a = <<>> THEN <<LBrace, RBrace>> ELSE <<LBrace, Members(a), RBrace>>

FreeTexts ==
    {<<>>, <<Words>>, <<LBrace, Words, RBrace>>, <<RBrace, Words, LBrace>>,
     <<LBrace, Members(FullAnswer)>>,
     Object(PlainAnswer) \o <<Words>> \o Object(FullAnswer)}
    \cup {Object(a) : a \in AnswerObjects}
    \cup {<<Words>> \o Object(a) \o <<Words>> : a \in AnswerObjects}

\* Responses to the free-text request: the call raises, the message has no
\* content (content is None), or the message content is a text.
NotIssued == [kind |-> "not_issued", text |-> <<>>]
TextRaises == [kind |-> "raise", text |-> <<>>]
NoContent == [kind |-> "no_content", text |-> <<>>]
Text(t) == [kind |-> "text", text |-> t]

FreeTextResponses == {TextRaises, NoContent} \cup {Text(t) : t \in FreeTexts}

\* Mutant of ReSearchObject: a non-greedy pattern, ending at the first
\* closing brace after the first opening brace.
ReSearchObjectNonGreedy(text) ==
    LET opens == {k \in 1..Len(text) : text[k] = LBrace}
        first == CHOOSE k \in opens : \A m \in opens : k <= m
        closes == {k \in 1..Len(text) : text[k] = RBrace /\ k > first}
        last == CHOOSE k \in closes : \A m \in closes : k <= m
    IN IF opens # {} /\ closes # {}
       THEN [found |-> TRUE, group |-> SubSeq(text, first, last)]
       ELSE [found |-> FALSE, group |-> <<>>]

\* re.search(r'\{.*\}', text, re.DOTALL): from the first opening brace that
\* has a closing brace after it to the last closing brace.  found = FALSE
\* when there is no match.
ReSearchObject(text) ==
    LET opens == {k \in 1..Len(text) : text[k] = LBrace}
        closes == {k \in 1..Len(text) : text[k] = RBrace}
        first == CHOOSE k \in opens : \A m \in opens : k <= m
        last == CHOOSE k \in closes : \A m \in closes : m <= k
    IN IF opens # {} /\ closes # {} /\ first < last
       THEN [found |-> TRUE, group |-> SubSeq(text, first, last)]
       ELSE [found |-> FALSE, group |-> <<>>]

\* json.loads of a text that starts and ends with a brace: a dict, or
\* ok = FALSE when it raises JSONDecodeError.
JsonLoads(text) ==
    IF text = <<LBrace, RBrace>> THEN [ok |-> TRUE, value |-> <<>>]
    ELSE IF Len(text) = 3 /\ text[1] = LBrace /\ text[2].t = "members" /\ text[3] = RBrace
         THEN [ok |-> TRUE, value |-> text[2].members]
         ELSE [ok |-> FALSE, value |-> <<>>]

DefaultAnswer ==
    [correct_answer |-> JStr("UNSURE"),
     explanation |-> JStr("Unable to determine correct answer due to processing issues"),
     hint |-> JStr("Please review the question carefully and consult your study materials"),
     confidence |-> JStr("UNSURE")]

\* Mutant of FallbackAnswerData: the free text is never parsed.
FallbackAnswerDataUnparsed(resp) == DefaultAnswer

\* answer_data of the fallback path, from the free-text response.
FallbackAnswerData(resp) ==
    IF resp.kind # "text" THEN DefaultAnswer
    ELSE LET m == ReSearchObject(resp.text) IN
         IF ~m.found THEN DefaultAnswer
         ELSE LET j == JsonLoads(m.group) IN
              IF j.ok THEN j.value ELSE DefaultAnswer

\* Mutant of AnswerFields: confidence read without its default.
AnswerFieldsNoDefault(answer_data) ==
    [correct_answer |-> DictGet(answer_data, "correct_answer", JNull),
     explanation |-> DictGet(answer_data, "explanation", JNull),
     hint |-> DictGet(answer_data, "hint", JNull),
     confidence |-> DictGet(answer_data, "confidence", JNull)]

\* The four values question_dict is updated with.
AnswerFields(answer_data) ==
    [correct_answer |-> DictGet(answer_data, "correct_answer", JNull),
     explanation |-> DictGet(answer_data, "explanation", JNull),
     hint |-> DictGet(answer_data, "hint", JNull),
     confidence |-> DictGet(answer_data, "confidence", JStr("UNSURE"))]

\* Question(**question_dict) validates: every answer field is Optional[str].
AnswerFieldsValid(f) ==
    /\ ValidOptStr(f.correct_answer)
    /\ ValidOptStr(f.explanation)
    /\ ValidOptStr(f.hint)
    /\ ValidOptStr(f.confidence)

\* Mutant of Answered: the updated question is built without the embedded
\* diagrams of the linked question.
AnsweredWithoutDiagrams(question, answer_data) ==
    LET f == [correct_answer |-> DictGet(answer_data, "correct_answer", JNull),
              explanation |-> DictGet(answer_data, "explanation", JNull),
              hint |-> DictGet(answer_data, "hint", JNull),
              confidence |-> DictGet(answer_data, "confidence", JStr("UNSURE"))] IN
    IF \A k \in DOMAIN f : f[k].ty \in {"str", "null"}
    THEN [question EXCEPT !.correct_answer = OptStr(f.correct_answer),
                          !.explanation = OptStr(f.explanation),
                          !.hint = OptStr(f.hint),
                          !.confidence = OptStr(f.confidence),
                          !.diagrams = <<>>]
    ELSE question

\* The question appended for answer_data: the updated question, or the
\* original question when building the updated one raised.
Answered(question, answer_data) ==
    LET f == AnswerFields(answer_data) IN
    IF AnswerFieldsValid(f)
    THEN [question EXCEPT !.correct_answer = OptStr(f.correct_answer),
                          !.explanation = OptStr(f.explanation),
                          !.hint = OptStr(f.hint),
                          !.confidence = OptStr(f.confidence)]
    ELSE question

\* Mutant of AnsweredStructured: a response without usable arguments gets
\* the UNSURE defaults.
AnsweredStructuredWithDefaults(question, resp) ==
    IF resp.kind = "call" THEN Answered(question, resp.payload)
    ELSE Answered(question, DefaultAnswer)

\* The question appended after a function-calling request that returned.
AnsweredStructured(question, resp) ==
    IF resp.kind = "call" THEN Answered(question, resp.payload) ELSE question

\* Mutant of AnsweredFallback: a raising free-text request is treated as an
\* unparsable response.
AnsweredFallbackDefaultOnRaise(question, resp) ==
    IF resp.kind = "raise" THEN Answered(question, DefaultAnswer)
    ELSE Answered(question, FallbackAnswerData(resp))

\* The question appended after the free-text request.
AnsweredFallback(question, resp) ==
    IF resp.kind = "raise" THEN question
    ELSE Answered(question, FallbackAnswerData(resp))

\* Mutant of CurrentQuestion: the answer loop works on the questions as the
\* extractor returned them, not on the linked ones.
CurrentQuestionUnlinked == questions[question_idx + 1]

\* processed_exam.questions[i] of the answer loop.
CurrentQuestion == processed_exam.questions[question_idx + 1]

\* One question, up to the first await: the function-calling request is
\* handed to the service.
AnswerStructuredRequest ==
    /\ pc = "generate_answers"
    /\ ~in_flight
    /\ question_idx < Len(processed_exam.questions)
    /\ requests' = Append(requests, Request("generate_answer_and_hint", question_idx + 1, <<>>))
    /\ in_flight' = TRUE
    /\ UNCHANGED <<pc, document, metadata, extractVars, processed_exam, answerVars,
                   metadata_log, uploadVars, sessionVars>>

\* The end of that await.  When the request raised, the coroutine goes on
\* to the free-text request.
AnswerStructured(pool) ==
    /\ pc = "generate_answers"
    /\ in_flight
    /\ in_flight' = FALSE
    /\ \E resp \in pool :
         /\ answer_log' = Append(answer_log, [structured |-> resp, fallback |-> NotIssued])
         /\ IF resp.kind = "raise"
            THEN /\ pc' = "answer_fallback"
                 /\ UNCHANGED <<question_idx, updated_questions>>
            ELSE /\ pc' = pc
                 /\ updated_questions' =
                       Append(updated_questions, AnsweredStructured(CurrentQuestion, resp))
                 /\ question_idx' = question_idx + 1
    /\ UNCHANGED <<requests, document, metadata_log, uploadVars, sessionVars, metadata, extractVars, processed_exam, final_exam>>

\* The same question, up to the second await: the free-text request.
AnswerFallbackRequest ==
    /\ pc = "answer_fallback"
    /\ ~in_flight
    /\ requests' = Append(requests, Request("", question_idx + 1, <<>>))
    /\ in_flight' = TRUE
    /\ UNCHANGED <<pc, document, metadata, extractVars, processed_exam, answerVars,
                   metadata_log, uploadVars, sessionVars>>

\* The end of that await and the parse of the response.
AnswerFallback(pool) ==
    /\ pc = "answer_fallback"
    /\ in_flight
    /\ in_flight' = FALSE
    /\ \E resp \in pool :
         /\ answer_log' = [answer_log EXCEPT ![question_idx + 1].fallback = resp]
         /\ updated_questions' =
               Append(updated_questions, AnsweredFallback(CurrentQuestion, resp))
    /\ question_idx' = question_idx + 1
    /\ pc' = "generate_answers"
    /\ UNCHANGED <<requests, document, metadata_log, uploadVars, sessionVars, metadata, extractVars, processed_exam, final_exam>>

\* Mutant of AnsweredExam: questions left without an answer are dropped.
HasAnswer(q) == q.correct_answer # None

AnsweredExamAnsweredOnly(exam, qs) ==
    [metadata |-> exam.metadata, diagrams |-> exam.diagrams,
     questions |-> SelectSeq(qs, HasAnswer)]

\* The ProcessedExam built after the loop.
AnsweredExam(exam, qs) ==
    [metadata |-> exam.metadata, diagrams |-> exam.diagrams, questions |-> qs]

GenerateAnswersReturn ==
    /\ pc = "generate_answers"
    /\ ~in_flight
    /\ question_idx = Len(processed_exam.questions)
    /\ final_exam' = AnsweredExam(processed_exam, updated_questions)
    /\ pc' = "answers_done"
    /\ UNCHANGED <<in_flight, document, metadata_log, uploadVars, sessionVars, requests, metadata, extractVars, processed_exam,
                   question_idx, updated_questions, answer_log>>

\* Linked exams handed to _generate_answers: one question per page, the
\* odd ones numbered "3" with options, the even ones bare; one diagram
\* numbered "3" on the first page.
ExamOfPages(n) ==
    StructureData(
        [UntitledExam EXCEPT !.title = "Exam", !.subject = Some("Physics")],
        [k \in 1..(IF n = 0 THEN 0 ELSE 1) |->
            NewDiagram(FullDiagramItem, k - 1, PageImages(n)[k])],
        [k \in 1..n |->
            NewQuestion(IF k % 2 = 1 THEN FullQuestionItem ELSE BareQuestionItem, k - 1)])

InitAnswers ==
    /\ pc = "generate_answers"
    /\ \E n \in 0..MaxPages :
         /\ document = Some(n)
         /\ images = PageImages(n)
         /\ page_num = n
         /\ processed_exam = ExamOfPages(n)
    /\ metadata = processed_exam.metadata
    /\ diagrams = processed_exam.diagrams
    /\ questions = [k \in 1..Len(processed_exam.questions) |->
                      [processed_exam.questions[k] EXCEPT !.diagrams = <<>>]]
    /\ requests = <<>>
    /\ in_flight = FALSE
    /\ metadata_log = <<>>
    /\ NoUpload
    /\ NoSessions
    /\ diagram_log = <<>>
    /\ question_log = <<>>
    /\ NoAnswersYet

NextAnswers ==
    \/ AnswerStructuredRequest
    \/ AnswerStructured(StructuredAnswerResponses)
    \/ AnswerFallbackRequest
    \/ AnswerFallback(FreeTextResponses)
    \/ GenerateAnswersReturn

SpecAnswers == InitAnswers /\ [][NextAnswers]_vars

\* The three loops that build the lists of the exam, each started from the
\* states its own specification starts from.
InitLists == InitDiagrams \/ InitQuestions \/ InitAnswers

NextLists == NextDiagrams \/ NextQuestions \/ NextAnswers

SpecLists == InitLists /\ [][NextLists]_vars

(***************************************************************************)
(* _rasterize_pdf and _extract_metadata                                    *)
(***************************************************************************)
\* Mutant of Rasterize: the exception of convert_from_path is swallowed and
\* the pipeline goes on with no page image.
RasterizeSwallows ==
    /\ pc = "rasterize"
    /\ pc' = "extract_metadata"
    /\ images' = (IF document = None THEN <<>> ELSE PageImages(document[1]))
    /\ UNCHANGED <<in_flight, document, metadata_log, uploadVars, sessionVars, requests, metadata, page_num,
                   diagrams, questions, diagram_log, question_log, processed_exam,
                   answerVars>>

\* convert_from_path raises on an unreadable document and the exception
\* is re-raised through process_pdf.
Rasterize ==
    /\ pc = "rasterize"
    /\ IF document = None
       THEN pc' = "raised" /\ images' = images
       ELSE pc' = "extract_metadata" /\ images' = PageImages(document[1])
    /\ UNCHANGED <<in_flight, document, metadata_log, uploadVars, sessionVars, requests, metadata, page_num, diagrams, questions,
                   diagram_log, question_log, processed_exam, answerVars>>

\* JSON objects the service may give as exam metadata.
TitleOnly == [title |-> JStr("Exam")]
FullMetadata == [title |-> JStr("Exam"), subject |-> JStr("Physics"),
                 topic |-> JNull, total_questions |-> JInt(7),
                 duration_minutes |-> JInt(60)]
NoTitle == [subject |-> JStr("Physics"), total_questions |-> JInt(7)]
NullTitle == [title |-> JNull, subject |-> JStr("Physics")]
ArrayCount == [title |-> JStr("Exam"), total_questions |-> JArr]
WordCount == [title |-> JStr("Exam"), total_questions |-> JStr("Physics")]
NumeralCount == [title |-> JStr("Exam"), total_questions |-> JStr("7")]

MetadataObjects ==
    {TitleOnly, FullMetadata, NoTitle, NullTitle, ArrayCount, WordCount, NumeralCount}

MetadataResponses == {Raises, NoCall, BadJson} \cup {Call(m) : m \in MetadataObjects}

\* ExamMetadata(**metadata_json) validates: title is required.
MetadataValid(m) ==
    /\ "title" \in DOMAIN m /\ ValidStr(m.title)
    /\ ValidOptStr(DictGet(m, "subject", JNull))
    /\ ValidOptStr(DictGet(m, "topic", JNull))
    /\ ValidOptInt(DictGet(m, "total_questions", JNull))
    /\ ValidOptInt(DictGet(m, "duration_minutes", JNull))
    /\ ValidOptStr(DictGet(m, "difficulty_level", JNull))

\* Mutant of MetadataOutcome: an ill-typed optional member is dropped and
\* the rest of the payload is kept.
MetadataOutcomeLenient(resp) ==
    IF resp.kind = "call" /\ "title" \in DOMAIN resp.payload /\ ValidStr(resp.payload.title)
    THEN [title |-> resp.payload.title.s, subject |-> None, topic |-> None,
          total_questions |-> None, duration_minutes |-> None,
          difficulty_level |-> None]
    ELSE UntitledExam

\* The result of _extract_metadata for a response; any exception gives
\* ExamMetadata(title="Untitled Exam").
MetadataOutcome(resp) ==
    IF resp.kind = "call" /\ MetadataValid(resp.payload)
    THEN LET m == resp.payload IN
         [title |-> m.title.s,
          subject |-> OptStr(DictGet(m, "subject", JNull)),
          topic |-> OptStr(DictGet(m, "topic", JNull)),
          total_questions |-> OptInt(DictGet(m, "total_questions", JNull)),
          duration_minutes |-> OptInt(DictGet(m, "duration_minutes", JNull)),
          difficulty_level |-> OptStr(DictGet(m, "difficulty_level", JNull))]
    ELSE UntitledExam

MetadataPages == 3

\* Mutant of MetadataImages: every page image is sent.
MetadataImagesAll(imgs) == imgs

\* images[:min(3, len(images))]
MetadataImages(imgs) ==
    SubSeq(imgs, 1, IF Len(imgs) < MetadataPages THEN Len(imgs) ELSE MetadataPages)

\* _extract_metadata up to its await: the one request of the stage.
ExtractMetadataRequest ==
    /\ pc = "extract_metadata"
    /\ ~in_flight
    /\ requests' = Append(requests,
                          Request("extract_exam_metadata", 0, MetadataImages(images)))
    /\ in_flight' = TRUE
    /\ UNCHANGED <<pc, document, metadata, extractVars, processed_exam, answerVars,
                   metadata_log, uploadVars, sessionVars>>

\* _extract_metadata from the end of the await.
ExtractMetadata(pool) ==
    /\ pc = "extract_metadata"
    /\ in_flight
    /\ in_flight' = FALSE
    /\ \E resp \in pool :
         /\ metadata' = MetadataOutcome(resp)
         /\ metadata_log' = Append(metadata_log, resp)
    /\ pc' = "metadata_done"
    /\ UNCHANGED <<requests, document, uploadVars, sessionVars, images, page_num, diagrams, questions, diagram_log,
                   question_log, processed_exam, answerVars>>

(***************************************************************************)
(* process_pdf: the calls between the stages                               *)
(***************************************************************************)
CallExtractDiagrams ==
    /\ pc = "metadata_done"
    /\ pc' = "extract_diagrams"
    /\ page_num' = 0
    /\ diagrams' = <<>>
    /\ UNCHANGED <<in_flight, document, metadata_log, uploadVars, sessionVars, requests, metadata, images, questions, diagram_log,
                   question_log, processed_exam, answerVars>>

CallExtractQuestions ==
    /\ pc = "diagrams_done"
    /\ pc' = "extract_questions"
    /\ page_num' = 0
    /\ questions' = <<>>
    /\ UNCHANGED <<in_flight, document, metadata_log, uploadVars, sessionVars, requests, metadata, images, diagrams, diagram_log,
                   question_log, processed_exam, answerVars>>

CallStructureData ==
    /\ pc = "questions_done"
    /\ pc' = "structure"
    /\ UNCHANGED <<in_flight, document, metadata_log, uploadVars, sessionVars, requests, metadata, extractVars, processed_exam, answerVars>>

CallGenerateAnswers ==
    /\ pc = "structured"
    /\ pc' = "generate_answers"
    /\ question_idx' = 0
    /\ updated_questions' = <<>>
    /\ UNCHANGED <<in_flight, document, metadata_log, uploadVars, sessionVars, requests, metadata, extractVars, processed_exam,
                   answer_log, final_exam>>

\* return final_exam.dict()
ReturnExam ==
    /\ pc = "answers_done"
    /\ pc' = "returned"
    /\ UNCHANGED <<in_flight, document, metadata_log, uploadVars, sessionVars, requests, metadata, extractVars, processed_exam, answerVars>>

\* What the service answers in the runs of the whole pipeline.
PipelineMetadataResponses == MetadataResponses
PipelineDiagramResponses ==
    {Raises, Call([diagrams |-> <<>>]), Call([diagrams |-> <<FullDiagramItem>>])}
PipelineQuestionResponses ==
    {Raises, Call([questions |-> <<>>]), Call([questions |-> <<FullQuestionItem>>])}
PipelineAnswerResponses == {Raises, NoCall, Call(FullAnswer)}
PipelineFreeTextResponses == {TextRaises, Text(<<Words>>), Text(Object(PlainAnswer))}

Init ==
    /\ pc = "rasterize"
    /\ document \in {None} \cup {Some(n) : n \in 0..MaxPages}
    /\ requests = <<>>
    /\ in_flight = FALSE
    /\ metadata_log = <<>>
    /\ NoUpload
    /\ NoSessions
    /\ images = <<>>
    /\ page_num = 0
    /\ metadata = UntitledExam
    /\ diagrams = <<>>
    /\ questions = <<>>
    /\ diagram_log = <<>>
    /\ question_log = <<>>
    /\ processed_exam = EmptyExam
    /\ NoAnswersYet

Next ==
    \/ Rasterize
    \/ ExtractMetadataRequest
    \/ ExtractMetadata(PipelineMetadataResponses)
    \/ CallExtractDiagrams
    \/ ExtractDiagramsRequest
    \/ ExtractDiagramsPage(PipelineDiagramResponses)
    \/ ExtractDiagramsReturn
    \/ CallExtractQuestions
    \/ ExtractQuestionsRequest
    \/ ExtractQuestionsPage(PipelineQuestionResponses)
    \/ ExtractQuestionsReturn
    \/ CallStructureData
    \/ Structure
    \/ CallGenerateAnswers
    \/ AnswerStructuredRequest
    \/ AnswerStructured(PipelineAnswerResponses)
    \/ AnswerFallbackRequest
    \/ AnswerFallback(PipelineFreeTextResponses)
    \/ GenerateAnswersReturn
    \/ ReturnExam

Spec == Init /\ [][Next]_vars

(***************************************************************************)
(* process_pdf on documents longer than the metadata prefix, on which the  *)
(* service finds no diagram and no question (the answer loop has nothing   *)
(* to do).                                                                 *)
(***************************************************************************)
LongDiagramResponses == {Raises, Call([diagrams |-> <<>>])}
LongQuestionResponses == {Raises, Call([questions |-> <<>>])}

InitLong ==
    /\ pc = "rasterize"
    /\ document \in {None} \cup {Some(n) : n \in 0..MaxLongPages}
    /\ requests = <<>>
    /\ in_flight = FALSE
    /\ metadata_log = <<>>
    /\ NoUpload
    /\ NoSessions
    /\ images = <<>>
    /\ page_num = 0
    /\ metadata = UntitledExam
    /\ diagrams = <<>>
    /\ questions = <<>>
    /\ diagram_log = <<>>
    /\ question_log = <<>>
    /\ processed_exam = EmptyExam
    /\ NoAnswersYet

NextLong ==
    \/ Rasterize
    \/ ExtractMetadataRequest
    \/ ExtractMetadata(MetadataResponses)
    \/ CallExtractDiagrams
    \/ ExtractDiagramsRequest
    \/ ExtractDiagramsPage(LongDiagramResponses)
    \/ ExtractDiagramsReturn
    \/ CallExtractQuestions
    \/ ExtractQuestionsRequest
    \/ ExtractQuestionsPage(LongQuestionResponses)
    \/ ExtractQuestionsReturn
    \/ CallStructureData
    \/ Structure
    \/ CallGenerateAnswers
    \/ GenerateAnswersReturn
    \/ ReturnExam

SpecLong == InitLong /\ [][NextLong]_vars

(***************************************************************************)
(* ExamHandler.upload_pdf (api/handlers/exam_handler.py) with the file     *)
(* helpers of utils/file_utils.py.  process_pdf runs inside it, step by    *)
(* step, while upload_pc = "process_pdf".  The file system, the database   *)
(* and the task's cancellation are the environment.                        *)
(***************************************************************************)
TempDir == "tmp/exam_1_"
TempFile == "tmp/exam_1_/exam_1.pdf"
PermanentFile == "uploads/exam_1.pdf"
Filename == "exam_1.pdf"

\* The columns of the session's exam object.
Columns(e) ==
    [title |-> e.title, pdf_filename |-> e.pdf_filename, questions_json |-> e.questions_json]

\* The statement after the try block: leave through `finally`.
Leave(how) == upload_pc' = "finally" /\ outcome' = how

\* get_exam and validate_pdf_file: either raises HTTPException, which
\* upload_pdf re-raises; no temporary directory exists yet.
UploadValidate ==
    /\ upload_pc = "start"
    /\ \E ok \in BOOLEAN :
         IF ok /\ exam_exists
         THEN /\ upload_pc' = "create_temp_directory"
              /\ outcome' = outcome
              /\ exam_obj' = SessionExam(db_exam)
              /\ loaded_exam' = db_exam
         ELSE /\ Leave("http_error")
              /\ UNCHANGED <<exam_obj, loaded_exam>>
    /\ UNCHANGED <<temp_dir, files, db_exam, cleanup_log>>
    /\ UNCHANGED <<exam_exists, create_call, exam_call>>
    /\ UNCHANGED <<pc, in_flight, document, requests, metadata, extractVars, processed_exam,
                   answerVars, metadata_log, sessionVars>>

\* create_temp_directory: tempfile.mkdtemp, whose exception is re-raised
\* and turned into HTTPException(500) by handle_error.
CreateTempDirectory ==
    /\ upload_pc = "create_temp_directory"
    /\ \E ok \in BOOLEAN :
         IF ok
         THEN /\ temp_dir' = Some(TempDir)
              /\ files' = files \cup {TempDir}
              /\ upload_pc' = "save_to_temp"
              /\ outcome' = outcome
         ELSE /\ Leave("http_error")
              /\ UNCHANGED <<temp_dir, files>>
    /\ UNCHANGED <<exam_obj, db_exam, cleanup_log>>
    /\ UNCHANGED <<pc, in_flight, document, requests, metadata, extractVars, processed_exam,
                   answerVars, metadata_log, sessionVars, examVars>>

\* save_to_temp: writes the upload into the directory; a failure (which
\* may leave a partial file) is raised as HTTPException(500).
SaveToTemp ==
    /\ upload_pc = "save_to_temp"
    /\ \/ /\ files' = files \cup {TempFile}
          /\ upload_pc' = "process_pdf"
          /\ outcome' = outcome
       \/ /\ files' \in {files, files \cup {TempFile}}
          /\ Leave("http_error")
    /\ UNCHANGED <<temp_dir, exam_obj, db_exam, cleanup_log>>
    /\ UNCHANGED <<pc, in_flight, document, requests, metadata, extractVars, processed_exam,
                   answerVars, metadata_log, sessionVars, examVars>>

\* await self.pdf_processor.process_pdf(temp_file_path, exam_id): one step
\* of the pipeline.
ProcessPdfStep == upload_pc = "process_pdf" /\ Next

\* The coroutine is suspended in `await asyncio.to_thread(...)`.
Awaiting == in_flight

\* The task is cancelled while it awaits a request: CancelledError is not
\* an Exception, so no except clause of upload_pdf handles it and only
\* the finally clause runs.
Cancel ==
    /\ upload_pc = "process_pdf"
    /\ Awaiting
    /\ Leave("cancelled")
    /\ UNCHANGED <<temp_dir, files, exam_obj, db_exam, cleanup_log>>
    /\ UNCHANGED <<pc, in_flight, document, requests, metadata, extractVars, processed_exam,
                   answerVars, metadata_log, sessionVars, examVars>>

\* Mutant of ProcessingFailedExam: the file name is recorded although
\* processing failed.
ProcessingFailedExamWithFile(e) ==
    [e EXCEPT !.status = Some("processing_failed"),
              !.pdf_filename = Some(Filename),
              !.questions_json = [kind |-> "error", questions |-> <<>>,
                                  total_questions |-> 0,
                                  processing_status |-> "failed"]]

\* The except clause of the inner try.
ProcessingFailedExam(e) ==
    [e EXCEPT !.status = Some("processing_failed"),
              !.questions_json = [kind |-> "error", questions |-> <<>>,
                                  total_questions |-> 0,
                                  processing_status |-> "failed"]]

\* The assignments after shutil.copy2.
ProcessedExamOf(e, artifact) ==
    [e EXCEPT !.pdf_filename = Some(Filename),
              !.questions_json = [kind |-> "exam", artifact |-> artifact],
              !.title = artifact.metadata.title,
              !.status = Some("processed")]

\* The pdf_processor property raises (missing environment variables),
\* inside the inner try, before process_pdf has begun.
ProcessorUnavailable ==
    /\ upload_pc = "process_pdf"
    /\ pc = "rasterize"
    /\ exam_obj' = ProcessingFailedExam(exam_obj)
    /\ upload_pc' = "commit"
    /\ UNCHANGED <<temp_dir, files, db_exam, outcome, cleanup_log>>
    /\ UNCHANGED <<pc, in_flight, document, requests, metadata, extractVars, processed_exam,
                   answerVars, metadata_log, sessionVars, examVars>>

\* process_pdf returned: the temporary file is copied to the upload
\* directory and the exam is updated; a failing copy is caught by the
\* inner except clause like a failing process_pdf.
ProcessingSucceeded ==
    /\ upload_pc = "process_pdf"
    /\ pc = "returned"
    /\ \/ /\ files' = files \cup {PermanentFile}
          /\ exam_obj' = ProcessedExamOf(exam_obj, final_exam)
       \/ /\ files' \in {files, files \cup {PermanentFile}}
          /\ exam_obj' = ProcessingFailedExam(exam_obj)
    /\ upload_pc' = "commit"
    /\ UNCHANGED <<temp_dir, db_exam, outcome, cleanup_log>>
    /\ UNCHANGED <<pc, in_flight, document, requests, metadata, extractVars, processed_exam,
                   answerVars, metadata_log, sessionVars, examVars>>

\* process_pdf raised: `except Exception as processing_error`.
ProcessingFailed ==
    /\ upload_pc = "process_pdf"
    /\ pc = "raised"
    /\ exam_obj' = ProcessingFailedExam(exam_obj)
    /\ upload_pc' = "commit"
    /\ UNCHANGED <<temp_dir, files, db_exam, outcome, cleanup_log>>
    /\ UNCHANGED <<pc, in_flight, document, requests, metadata, extractVars, processed_exam,
                   answerVars, metadata_log, sessionVars, examVars>>

\* The row after the flush of the session: the columns of the object
\* that differ from what the session loaded are written, the others keep
\* the value the row has.
Flushed(row, e, loaded) ==
    [col \in DOMAIN row |-> IF e[col] # loaded[col] THEN e[col] ELSE row[col]]

\* The object after its columns are read from the row again; `status` is
\* not a column and stays.
Reloaded(row, e) == [SessionExam(row) EXCEPT !.status = e.status]

\* db.commit(); db.refresh(exam); return result.  The commit raises (as
\* it does when the row is gone), or the refresh raises after the commit:
\* the outer except clause rolls back and handle_error raises
\* HTTPException(500).
Commit ==
    /\ upload_pc = "commit"
    /\ \/ /\ exam_exists
          /\ db_exam' = Flushed(db_exam, exam_obj, loaded_exam)
          /\ Leave("returned")
       \/ /\ db_exam' = db_exam
          /\ Leave("http_error")
       \/ /\ exam_exists
          /\ db_exam' = Flushed(db_exam, exam_obj, loaded_exam)
          /\ Leave("http_error")
    /\ exam_obj' = Reloaded(db_exam', exam_obj)
    /\ loaded_exam' = db_exam'
    /\ UNCHANGED <<temp_dir, files, cleanup_log>>
    /\ UNCHANGED <<exam_exists, create_call, exam_call>>
    /\ UNCHANGED <<pc, in_flight, document, requests, metadata, extractVars, processed_exam,
                   answerVars, metadata_log, sessionVars>>

\* cleanup_temp_directory: the file systems it may leave.  shutil.rmtree
\* removes the directory and its content; when it raises, the exception
\* is logged and swallowed, and the directory (with or without the
\* file) is still there.
CleanupTempDirectory(fs) ==
    IF TempDir \in fs
    THEN {[files |-> fs \ {TempDir, TempFile}, raised |-> FALSE]}
         \cup {[files |-> f, raised |-> TRUE] : f \in {fs, fs \ {TempFile}}}
    ELSE {[files |-> fs, raised |-> FALSE]}

\* finally: if temp_dir: cleanup_temp_directory(temp_dir); then the
\* pending return or exception takes effect.
Finally ==
    /\ upload_pc = "finally"
    /\ IF temp_dir # None
       THEN \E r \in CleanupTempDirectory(files) :
               /\ files' = r.files
               /\ cleanup_log' = (IF r.raised THEN "rmtree_raised" ELSE "removed")
       ELSE files' = files /\ cleanup_log' = "not_run"
    /\ upload_pc' = "done"
    /\ UNCHANGED <<temp_dir, exam_obj, db_exam, outcome>>
    /\ UNCHANGED <<pc, in_flight, document, requests, metadata, extractVars, processed_exam,
                   answerVars, metadata_log, sessionVars, examVars>>

InitUpload ==
    /\ pc = "rasterize"
    /\ document \in {None} \cup {Some(n) : n \in 0..MaxPages}
    /\ requests = <<>>
    /\ in_flight = FALSE
    /\ metadata_log = <<>>
    /\ upload_pc = "start"
    /\ temp_dir = None
    /\ files = {}
    /\ exam_obj = SessionExam(StoredExam)
    /\ db_exam = StoredExam
    /\ outcome = "none"
    /\ cleanup_log = "none"
    /\ StoredOnly
    /\ NoSessions
    /\ images = <<>>
    /\ page_num = 0
    /\ metadata = UntitledExam
    /\ diagrams = <<>>
    /\ questions = <<>>
    /\ diagram_log = <<>>
    /\ question_log = <<>>
    /\ processed_exam = EmptyExam
    /\ NoAnswersYet

NextUpload ==
    \/ UploadValidate
    \/ CreateTempDirectory
    \/ SaveToTemp
    \/ ProcessorUnavailable
    \/ ProcessPdfStep
    \/ Cancel
    \/ ProcessingSucceeded
    \/ ProcessingFailed
    \/ Commit
    \/ Finally

SpecUpload == InitUpload /\ [][NextUpload]_vars

(***************************************************************************)
(* ExamHandler.create_exam, update_exam and delete_exam.  The model        *)
(* follows one exam: the calls on it do not read or write the rows of the  *)
(* other exams.  create_exam awaits upload_pdf; update_exam and            *)
(* delete_exam do not await, and are the calls of other requests, each     *)
(* with a database session of its own.                                     *)
(***************************************************************************)
\* The row that create_exam inserts.
NewExam(title) == [title |-> title, pdf_filename |-> None, questions_json |-> NoQuestionsJson]

\* How a call of create_exam ends.
CreateEnded(how) == [at |-> "done", outcome |-> how]

\* No call of upload_pdf or create_exam is between two suspensions: the
\* task has not begun, is over, or awaits a request of process_pdf.
AtRest ==
    \/ upload_pc \in {"idle", "start", "done"} /\ create_call.at \in {"idle", "done"}
    \/ upload_pc = "process_pdf" /\ Awaiting

\* create_exam up to the call of upload_pdf: the commit stores the row, or
\* raises; db.refresh may raise after the commit.  Without a file, the
\* exam dict is built next: `exam.status` raises AttributeError (status is
\* no column and nothing has assigned it).  Every exception ends, after a
\* rollback, in HTTPException(500); the stored row stays.
CreateExam ==
    /\ create_call.at = "idle"
    /\ upload_pc = "idle"
    /\ ~exam_exists
    /\ \E title \in {"New"}, pdf_file \in BOOLEAN :
          \/ /\ create_call' = CreateEnded("http_error")
             /\ UNCHANGED <<exam_exists, db_exam, exam_obj, loaded_exam, upload_pc>>
          \/ /\ exam_exists' = TRUE
             /\ db_exam' = NewExam(title)
             /\ create_call' = CreateEnded("http_error")
             /\ UNCHANGED <<exam_obj, loaded_exam, upload_pc>>
          \/ /\ exam_exists' = TRUE
             /\ db_exam' = NewExam(title)
             /\ exam_obj' = SessionExam(NewExam(title))
             /\ loaded_exam' = NewExam(title)
             /\ IF pdf_file
                THEN create_call' = [at |-> "upload", outcome |-> "none"] /\ upload_pc' = "start"
                ELSE create_call' = CreateEnded("http_error") /\ upload_pc' = upload_pc
    /\ UNCHANGED <<temp_dir, files, outcome, cleanup_log, exam_call>>
    /\ UNCHANGED <<pc, in_flight, document, requests, metadata, extractVars, processed_exam,
                   answerVars, metadata_log, sessionVars>>

\* create_exam after upload_pdf: CancelledError is no Exception and leaves
\* create_exam too; an HTTPException of upload_pdf is caught and reported
\* in the result.  Then the exam dict is built: `exam.status` raises
\* AttributeError unless upload_pdf has assigned it.  After a commit or a
\* refresh of upload_pdf that raised, the session is rolled back and the
\* columns are read from the row again: that raises when the row is gone,
\* and may raise as any query may.  Every exception ends in
\* HTTPException(500).
CreateExamReturn ==
    /\ create_call.at = "upload"
    /\ upload_pc = "done"
    /\ \/ /\ outcome = "cancelled"
          /\ create_call' = CreateEnded("cancelled")
       \/ /\ outcome # "cancelled"
          /\ exam_obj.status = None \/ ~exam_exists
          /\ create_call' = CreateEnded("http_error")
       \/ /\ outcome = "http_error"
          /\ exam_obj.status # None
          /\ exam_exists
          /\ create_call' \in {CreateEnded("returned"), CreateEnded("http_error")}
       \/ /\ outcome = "returned"
          /\ exam_obj.status # None
          /\ exam_exists
          /\ create_call' = CreateEnded("returned")
    /\ UNCHANGED <<upload_pc, temp_dir, files, exam_obj, db_exam, outcome, cleanup_log,
                   exam_exists, loaded_exam, exam_call>>
    /\ UNCHANGED <<pc, in_flight, document, requests, metadata, extractVars, processed_exam,
                   answerVars, metadata_log, sessionVars>>

\* update_exam: get_exam (404 without row, 403 for a user who is neither
\* admin nor creator), the title of update_data assigned when it is not
\* None, commit and refresh.  When a query or the commit raises nothing is
\* written; when the refresh raises the row is.
UpdateExam ==
    /\ AtRest
    /\ \/ /\ exam_call' = Some(500)
          /\ db_exam' = db_exam
       \/ /\ ~exam_exists
          /\ exam_call' = Some(404)
          /\ db_exam' = db_exam
       \/ /\ exam_exists
          /\ exam_call' = Some(403)
          /\ db_exam' = db_exam
       \/ /\ exam_exists
          /\ \E title \in {None, Some("Renamed")} :
                db_exam' = [db_exam EXCEPT !.title = IF title # None THEN title[1] ELSE @]
          /\ exam_call' \in {Some(200), Some(500)}
    /\ UNCHANGED <<upload_pc, temp_dir, files, exam_obj, outcome, cleanup_log,
                   exam_exists, loaded_exam, create_call>>
    /\ UNCHANGED <<pc, in_flight, document, requests, metadata, extractVars, processed_exam,
                   answerVars, metadata_log, sessionVars>>

\* delete_exam: get_exam, the file of pdf_filename removed when it exists,
\* db.delete and commit.  When a query or os.remove raises nothing has
\* changed; when the commit raises the row stays and the file is gone.
DeleteExam ==
    /\ AtRest
    /\ \/ /\ exam_call' = Some(500)
          /\ UNCHANGED <<exam_exists, files>>
       \/ /\ ~exam_exists
          /\ exam_call' = Some(404)
          /\ UNCHANGED <<exam_exists, files>>
       \/ /\ exam_exists
          /\ exam_call' = Some(403)
          /\ UNCHANGED <<exam_exists, files>>
       \/ /\ exam_exists
          /\ files' = (IF db_exam.pdf_filename # None THEN files \ {PermanentFile} ELSE files)
          /\ \/ exam_exists' = FALSE /\ exam_call' = Some(200)
             \/ exam_exists' = TRUE /\ exam_call' = Some(500)
    /\ UNCHANGED <<upload_pc, temp_dir, exam_obj, db_exam, outcome, cleanup_log,
                   loaded_exam, create_call>>
    /\ UNCHANGED <<pc, in_flight, document, requests, metadata, extractVars, processed_exam,
                   answerVars, metadata_log, sessionVars>>

\* The exam has its row and upload_pdf is called on it, or the table has
\* no row of the exam and create_exam is called; meanwhile update_exam and
\* delete_exam are called.
InitExams ==
    /\ pc = "rasterize"
    /\ document \in {None} \cup {Some(n) : n \in 0..MaxExamPages}
    /\ requests = <<>>
    /\ in_flight = FALSE
    /\ metadata_log = <<>>
    /\ upload_pc \in {"start", "idle"}
    /\ temp_dir = None
    /\ files = {}
    /\ exam_obj = SessionExam(StoredExam)
    /\ db_exam = StoredExam
    /\ outcome = "none"
    /\ cleanup_log = "none"
    /\ exam_exists = (upload_pc = "start")
    /\ loaded_exam = StoredExam
    /\ create_call = NoCreate
    /\ exam_call = None
    /\ NoSessions
    /\ images = <<>>
    /\ page_num = 0
    /\ metadata = UntitledExam
    /\ diagrams = <<>>
    /\ questions = <<>>
    /\ diagram_log = <<>>
    /\ question_log = <<>>
    /\ processed_exam = EmptyExam
    /\ NoAnswersYet

NextExams ==
    \/ NextUpload
    \/ CreateExam
    \/ CreateExamReturn
    \/ UpdateExam
    \/ DeleteExam

SpecExams == InitExams /\ [][NextExams]_vars

(***************************************************************************)
(* SessionHandler.start_test_session and SessionHandler.submit_test        *)
(*                                                                         *)
(* Each handler call runs in the database session of its request.  A call  *)
(* is two steps: its queries, and its commit.  Between the two, the calls  *)
(* of other requests may run.  No constraint of test_attempts refers to    *)
(* open attempts, so a commit never fails for the rows of another call.    *)
(***************************************************************************)
Users == {"u1", "u2"}
\* The test ids a request may name: those of the rows, and one that no
\* row has.
TestIds == 1..(MaxTests + 1)
\* UserRole.ADMIN
Admins == {"u2"}
\* duration_minutes of a start request
Durations == {None, Some(30)}

\* Question dicts of Test.questions_json, with the keys submit_test reads.
\* The question that process_test writes for a test:
PlaceholderQuestion ==
    [id |-> Some("q1"), correct_answer |-> Some("A"),
     subject |-> Some("Mathematics"), topic |-> Some("Algebra")]
\* The `answers` a submit request may carry (Dict[str, str]).
QuestionIds == {"q1", "q2"}
AnswerDicts ==
    {[question_id \in {} |-> "A"], [question_id \in {"q1"} |-> "A"], [question_id \in {"q1"} |-> "B"],
     [question_id \in QuestionIds |-> IF question_id = "q1" THEN "A" ELSE "B"]}

\* answers.get(question_id)
AnswersGet(answers, question_id) ==
    IF question_id # None /\ question_id[1] \in DOMAIN answers
    THEN Some(answers[question_id[1]])
    ELSE None

\* Mutant of QuestionResultOf: a question without submitted answer counts
\* as answered correctly.
QuestionResultOfLenient(attempt_id, question, answers) ==
    LET question_id == DictGet(question, "id", None)
        user_answer == AnswersGet(answers, question_id)
        correct_answer == DictGet(question, "correct_answer", None)
        is_correct == user_answer = correct_answer \/ user_answer = None
    IN  [attempt_id |-> attempt_id, question_id |-> question_id,
         user_answer |-> user_answer, correct_answer |-> correct_answer,
         is_correct |-> is_correct,
         marks_obtained |-> IF is_correct THEN 1 ELSE 0,
         subject |-> DictGet(question, "subject", None),
         topic |-> DictGet(question, "topic", None)]

\* The QuestionResult that the scoring loop builds for one question.
QuestionResultOf(attempt_id, question, answers) ==
    LET question_id == DictGet(question, "id", None)
        user_answer == AnswersGet(answers, question_id)
        correct_answer == DictGet(question, "correct_answer", None)
        is_correct == user_answer = correct_answer
    IN  [attempt_id |-> attempt_id, question_id |-> question_id,
         user_answer |-> user_answer, correct_answer |-> correct_answer,
         is_correct |-> is_correct,
         marks_obtained |-> IF is_correct THEN 1 ELSE 0,
         subject |-> DictGet(question, "subject", None),
         topic |-> DictGet(question, "topic", None)]

\* The scoring loop: one QuestionResult per question, in order.
ScoredResults(attempt_id, qs, answers) ==
    [k \in 1..Len(qs) |-> QuestionResultOf(attempt_id, qs[k], answers)]

\* total_score: the sum of marks_obtained over the loop.
RECURSIVE TotalScore(_)
TotalScore(results) ==
    IF results = <<>> THEN 0
    ELSE Head(results).marks_obtained + TotalScore(Tail(results))

\* percentage; the division is exact for the scores of the model.
Percentage(total_score, max_score) ==
    IF max_score > 0 THEN (total_score * 100) \div max_score ELSE 0

\* The query for an attempt of the user on the test that is not completed.
OpenAttempts(user, test_id) ==
    {a \in DOMAIN attempts :
        /\ attempts[a].user_id = user
        /\ attempts[a].test_id = test_id
        /\ attempts[a].completed_at = None}

\* `duration_minutes` used as a condition: None and 0 are falsy.
GivenDuration(duration_minutes) == duration_minutes # None /\ duration_minutes[1] # 0

\* The row that start_test_session adds.
NewAttempt(user, test_id, duration_minutes) ==
    [user_id |-> user, test_id |-> test_id, completed_at |-> None,
     duration_seconds |-> IF GivenDuration(duration_minutes)
                          THEN Some(duration_minutes[1] * 60) ELSE None,
     answers_json |-> None, total_score |-> None, max_score |-> None,
     percentage |-> None]

\* A handler call ends: by an HTTPException of the given status, or by
\* returning (status 200) the given body.
Raised(status) == [at |-> "idle", result |-> Some([status |-> status])]
Returned(body) == [at |-> "idle", result |-> Some([status |-> 200, body |-> body])]

\* The row of a test: the columns the handlers read or write.
\* questions_json is None or Some of the dict's "questions" list.
TestRow(created_by, questions_json, pdf_filename, pdf_content) ==
    [created_by |-> created_by, questions_json |-> questions_json,
     pdf_filename |-> pdf_filename, pdf_content |-> pdf_content]

\* The row that create_test adds.
NewTest(user) == TestRow(user, None, None, None)

\* query(Test).filter(Test.id == test_id).first() finds a row.
TestExists(test_id) == test_id \in DOMAIN tests /\ tests[test_id] # None

\* get_test: 404 from validate_exists, 403 for a user who is neither an
\* admin nor the creator, else (200) the test is returned.
GetTest(test_id, user) ==
    IF ~TestExists(test_id) THEN 404
    ELSE IF user \notin Admins /\ tests[test_id][1].created_by # user THEN 403
    ELSE 200

\* File names of an upload request, as lists of characters, and
\* str.lower() on the letters they hold.
PdfName == <<"a", ".", "P", "d", "f">>
TextName == <<"a", ".", "t", "x", "t">>
UploadNames == {PdfName, TextName}
Lower(name) ==
    [k \in DOMAIN name |-> CASE name[k] = "P" -> "p" [] name[k] = "D" -> "d"
                             [] name[k] = "F" -> "f" [] OTHER -> name[k]]
PdfSuffix == <<".", "p", "d", "f">>
\* str.endswith
EndsWith(name, suffix) ==
    /\ Len(name) >= Len(suffix)
    /\ SubSeq(name, Len(name) - Len(suffix) + 1, Len(name)) = suffix

\* The bytes of an uploaded file: empty or not.
Contents == {"", "%PDF"}
\* datetime.now() formatted to the second
Stamps == {"20240101_000000", "20240101_000001"}
\* os.path.join(upload_dir, f"test_{test_id}_{stamp}.pdf")
TestFile(test_id, stamp) == "uploads/test_" \o ToString(test_id) \o "_" \o stamp \o ".pdf"

\* The columns upload_pdf assigns: the file, its bytes, and a dict with an
\* empty "questions" list.
UploadedTest(row, path, content) ==
    [row EXCEPT !.pdf_filename = Some(path), !.pdf_content = Some(content),
                !.questions_json = Some(<<>>)]

\* The column process_questions assigns: a dict with the placeholder
\* question.
ProcessedTest(row) == [row EXCEPT !.questions_json = Some(<<PlaceholderQuestion>>)]

\* The rows of a test that create_test, upload_pdf and process_questions
\* leave, one after the other.
HandlerTests ==
    LET path == TestFile(1, "20240101_000000")
    IN  {NewTest("u1"),
         UploadedTest(NewTest("u1"), path, "%PDF"),
         ProcessedTest(UploadedTest(NewTest("u1"), path, "%PDF"))}

\* The handler calls of TestHandler are one step each: they do not await.
\* create_test: the commit stores the row, or raises and the session is
\* rolled back; db.refresh may raise after the commit stored the row.
CreateTest(c) ==
    /\ calls[c].at = "idle"
    /\ Len(tests) < MaxTests
    /\ \E user \in Users :
          \/ /\ tests' = Append(tests, Some(NewTest(user)))
             /\ calls' = [calls EXCEPT ![c] = Returned([id |-> Len(tests) + 1])]
          \/ /\ tests' = Append(tests, Some(NewTest(user)))
             /\ calls' = [calls EXCEPT ![c] = Raised(500)]
          \/ /\ tests' = tests
             /\ calls' = [calls EXCEPT ![c] = Raised(500)]
    /\ UNCHANGED <<attempts, question_results>>
    /\ UNCHANGED <<pc, in_flight, document, requests, metadata, extractVars, processed_exam,
                   answerVars, metadata_log, uploadVars>>

\* TestHandler.upload_pdf: get_test, the check of the file name, the file
\* written under upload_dir, the columns assigned, commit and refresh.
\* An exception of the query, of open(), of the commit or of the refresh
\* ends in HTTPException(500) after a rollback; the file stays.
TestUploadPdf(c) ==
    /\ calls[c].at = "idle"
    /\ \/ /\ UNCHANGED <<tests, files>>
          /\ calls' = [calls EXCEPT ![c] = Raised(500)]
       \/ /\ UNCHANGED <<tests, files>>
          /\ \E user \in Users, test_id \in TestIds, filename \in UploadNames :
                /\ GetTest(test_id, user) = 200 => ~EndsWith(Lower(filename), PdfSuffix)
                /\ calls' = [calls EXCEPT ![c] =
                               IF GetTest(test_id, user) # 200
                               THEN Raised(GetTest(test_id, user))
                               ELSE Raised(400)]
       \/ \E user \in Users, test_id \in TestIds, filename \in UploadNames,
             content \in Contents, stamp \in Stamps :
             LET path == TestFile(test_id, stamp)
                    row == UploadedTest(tests[test_id][1], path, content)
             IN  /\ GetTest(test_id, user) = 200
                 /\ EndsWith(Lower(filename), PdfSuffix)
                 /\ files' = files \cup {path}
                 /\ \/ /\ tests' = tests
                       /\ calls' = [calls EXCEPT ![c] = Raised(500)]
                    \/ /\ tests' = [tests EXCEPT ![test_id] = Some(row)]
                       /\ calls' = [calls EXCEPT ![c] =
                                      Returned([test_id |-> test_id, status |-> "uploaded"])]
                    \/ /\ tests' = [tests EXCEPT ![test_id] = Some(row)]
                       /\ calls' = [calls EXCEPT ![c] = Raised(500)]
    /\ UNCHANGED <<attempts, question_results>>
    /\ UNCHANGED <<upload_pc, temp_dir, exam_obj, db_exam, outcome, cleanup_log, examVars>>
    /\ UNCHANGED <<pc, in_flight, document, requests, metadata, extractVars, processed_exam,
                   answerVars, metadata_log>>

\* delete_test: get_test, the file of pdf_filename removed when it exists,
\* db.delete and commit.  When os.remove raises nothing has changed; when
\* the commit raises (as it does when the flush cannot detach the attempts
\* of the test, whose test_id is not nullable) the row stays and the file
\* is gone.
DeleteTest(c) ==
    /\ calls[c].at = "idle"
    /\ \/ /\ UNCHANGED <<tests, files>>
          /\ calls' = [calls EXCEPT ![c] = Raised(500)]
       \/ /\ UNCHANGED <<tests, files>>
          /\ \E user \in Users, test_id \in TestIds :
                /\ GetTest(test_id, user) # 200
                /\ calls' = [calls EXCEPT ![c] = Raised(GetTest(test_id, user))]
       \/ \E user \in Users, test_id \in TestIds :
             /\ GetTest(test_id, user) = 200
             /\ files' = (IF tests[test_id][1].pdf_filename # None
                          THEN files \ {tests[test_id][1].pdf_filename[1]}
                          ELSE files)
             /\ \/ /\ tests' = [tests EXCEPT ![test_id] = None]
                   /\ calls' = [calls EXCEPT ![c] =
                                  Returned([message |-> "Test deleted successfully"])]
                \/ /\ tests' = tests
                   /\ calls' = [calls EXCEPT ![c] = Raised(500)]
    /\ UNCHANGED <<attempts, question_results>>
    /\ UNCHANGED <<upload_pc, temp_dir, exam_obj, db_exam, outcome, cleanup_log, examVars>>
    /\ UNCHANGED <<pc, in_flight, document, requests, metadata, extractVars, processed_exam,
                   answerVars, metadata_log>>

\* process_questions: get_test, 400 for a test without PDF content (None
\* or no bytes), else the placeholder questions are stored by the commit,
\* or the commit raises and the session is rolled back.
ProcessQuestions(c) ==
    /\ calls[c].at = "idle"
    /\ \/ /\ tests' = tests
          /\ calls' = [calls EXCEPT ![c] = Raised(500)]
       \/ /\ tests' = tests
          /\ \E user \in Users, test_id \in TestIds :
                /\ GetTest(test_id, user) = 200 => ~Truthy(tests[test_id][1].pdf_content)
                /\ calls' = [calls EXCEPT ![c] =
                               IF GetTest(test_id, user) # 200
                               THEN Raised(GetTest(test_id, user))
                               ELSE Raised(400)]
       \/ \E user \in Users, test_id \in TestIds :
             /\ GetTest(test_id, user) = 200
             /\ Truthy(tests[test_id][1].pdf_content)
             /\ tests' = [tests EXCEPT ![test_id] = Some(ProcessedTest(@[1]))]
             /\ calls' = [calls EXCEPT ![c] =
                            Returned([status |-> "completed", total_questions |-> 1])]
    /\ UNCHANGED <<attempts, question_results>>
    /\ UNCHANGED <<pc, in_flight, document, requests, metadata, extractVars, processed_exam,
                   answerVars, metadata_log, uploadVars>>

\* start_test_session up to the creation of the attempt: a query raises
\* and the call ends in HTTPException(500); the request names a test that
\* has no row (404); its user has an attempt in progress on its test (400);
\* or the call goes on to create the attempt.
StartTestSessionCheck(c) ==
    /\ calls[c].at = "idle"
    /\ Len(attempts) + Cardinality({d \in Callers : calls[d].at = "add"}) < MaxAttempts
    /\ \/ calls' = [calls EXCEPT ![c] = Raised(500)]
       \/ /\ \E test_id \in TestIds : ~TestExists(test_id)
          /\ calls' = [calls EXCEPT ![c] = Raised(404)]
       \/ /\ \E user \in Users, test_id \in TestIds :
                TestExists(test_id) /\ OpenAttempts(user, test_id) # {}
          /\ calls' = [calls EXCEPT ![c] = Raised(400)]
       \/ \E user \in Users, test_id \in TestIds, duration_minutes \in Durations :
             /\ TestExists(test_id)
             /\ OpenAttempts(user, test_id) = {}
             /\ calls' = [calls EXCEPT ![c] =
                            [at |-> "add", user |-> user, test_id |-> test_id,
                             duration_minutes |-> duration_minutes]]
    /\ UNCHANGED <<tests, attempts, question_results>>
    /\ UNCHANGED <<pc, in_flight, document, requests, metadata, extractVars, processed_exam,
                   answerVars, metadata_log, uploadVars>>

\* start_test_session from db.add to its end: the commit stores the row, or
\* raises, and then the session is rolled back.  After the commit, the
\* refresh or the reload of an attribute may raise: the call ends in
\* HTTPException(500) and the row is stored.
StartTestSessionAdd(c) ==
    /\ calls[c].at = "add"
    /\ \/ /\ attempts' = Append(attempts, NewAttempt(calls[c].user, calls[c].test_id,
                                                     calls[c].duration_minutes))
          /\ calls' = [calls EXCEPT ![c] =
                         Returned([session_id |-> Len(attempts) + 1,
                                   expires |-> GivenDuration(calls[c].duration_minutes)])]
       \/ /\ attempts' = Append(attempts, NewAttempt(calls[c].user, calls[c].test_id,
                                                     calls[c].duration_minutes))
          /\ calls' = [calls EXCEPT ![c] = Raised(500)]
       \/ /\ attempts' = attempts
          /\ calls' = [calls EXCEPT ![c] = Raised(500)]
    /\ UNCHANGED <<tests, question_results>>
    /\ UNCHANGED <<pc, in_flight, document, requests, metadata, extractVars, processed_exam,
                   answerVars, metadata_log, uploadVars>>

\* submit_test up to the scoring: a query raises and the call ends in
\* HTTPException(500); the request names no open attempt of its user on
\* its test, or a test without row or without questions_json (400); or
\* the call goes on with the questions of the test.
SubmitTestCheck(c) ==
    /\ calls[c].at = "idle"
    /\ \/ calls' = [calls EXCEPT ![c] = Raised(500)]
       \/ /\ \E user \in Users, test_id \in TestIds, session_id \in 1..MaxAttempts :
                \/ session_id \notin OpenAttempts(user, test_id)
                \/ ~TestExists(test_id)
                \/ TestExists(test_id) /\ tests[test_id][1].questions_json = None
          /\ calls' = [calls EXCEPT ![c] = Raised(400)]
       \/ \E user \in Users, test_id \in TestIds, session_id \in 1..MaxAttempts,
             answers \in AnswerDicts :
             /\ session_id \in OpenAttempts(user, test_id)
             /\ TestExists(test_id)
             /\ tests[test_id][1].questions_json # None
             /\ calls' = [calls EXCEPT ![c] =
                            [at |-> "score", user |-> user, test_id |-> test_id,
                             session_id |-> session_id, answers |-> answers,
                             questions |-> tests[test_id][1].questions_json[1]]]
    /\ UNCHANGED <<tests, attempts, question_results>>
    /\ UNCHANGED <<pc, in_flight, document, requests, metadata, extractVars, processed_exam,
                   answerVars, metadata_log, uploadVars>>

\* submit_test from the scoring to its end: the commit stores the completed
\* attempt and the question results, or raises, and then the session is
\* rolled back.  After the commit, the refresh or the reload of
\* completed_at may raise: the call ends in HTTPException(500) and the
\* rows are stored.
SubmitTestScore(c) ==
    /\ calls[c].at = "score"
    /\ LET session_id == calls[c].session_id
           results == ScoredResults(session_id, calls[c].questions, calls[c].answers)
           total_score == TotalScore(results)
           max_score == Len(calls[c].questions)
           percentage == Percentage(total_score, max_score)
           completed == [attempts EXCEPT ![session_id] =
                           [@ EXCEPT !.completed_at = Some("now"),
                                     !.answers_json = Some(calls[c].answers),
                                     !.total_score = Some(total_score),
                                     !.max_score = Some(max_score),
                                     !.percentage = Some(percentage)]]
       IN  \/ /\ attempts' = completed
              /\ question_results' = question_results \o results
              /\ calls' = [calls EXCEPT ![c] =
                             Returned([attempt_id |-> session_id, score |-> total_score,
                                       max_score |-> max_score,
                                       percentage |-> percentage])]
           \/ /\ attempts' = completed
              /\ question_results' = question_results \o results
              /\ calls' = [calls EXCEPT ![c] = Raised(500)]
           \/ /\ UNCHANGED <<attempts, question_results>>
              /\ calls' = [calls EXCEPT ![c] = Raised(500)]
    /\ UNCHANGED tests
    /\ UNCHANGED <<pc, in_flight, document, requests, metadata, extractVars, processed_exam,
                   answerVars, metadata_log, uploadVars>>

\* The concurrent calls of the session handlers on a table of tests that
\* holds one test, as the calls of TestHandler leave it, its file on disk.
InitSessions ==
    /\ pc = "idle"
    /\ document = None
    /\ requests = <<>>
    /\ in_flight = FALSE
    /\ metadata_log = <<>>
    /\ upload_pc = "idle"
    /\ temp_dir = None
    /\ exam_obj = SessionExam(StoredExam)
    /\ db_exam = StoredExam
    /\ outcome = "none"
    /\ cleanup_log = "none"
    /\ StoredOnly
    /\ tests \in {<<Some(row)>> : row \in HandlerTests}
    /\ files = (IF tests[1][1].pdf_filename # None THEN {tests[1][1].pdf_filename[1]} ELSE {})
    /\ attempts = <<>>
    /\ question_results = <<>>
    /\ calls = [c \in Callers |-> Idle]
    /\ images = <<>>
    /\ page_num = 0
    /\ metadata = UntitledExam
    /\ diagrams = <<>>
    /\ questions = <<>>
    /\ diagram_log = <<>>
    /\ question_log = <<>>
    /\ processed_exam = EmptyExam
    /\ NoAnswersYet

NextSessions ==
    \E c \in Callers :
        \/ StartTestSessionCheck(c)
        \/ StartTestSessionAdd(c)
        \/ SubmitTestCheck(c)
        \/ SubmitTestScore(c)

SpecSessions == InitSessions /\ [][NextSessions]_vars

\* The handler calls of TestHandler and of SessionHandler, one call after
\* the other, from an empty table of tests.
InitTests ==
    /\ pc = "idle"
    /\ document = None
    /\ requests = <<>>
    /\ in_flight = FALSE
    /\ metadata_log = <<>>
    /\ NoUpload
    /\ NoSessions
    /\ images = <<>>
    /\ page_num = 0
    /\ metadata = UntitledExam
    /\ diagrams = <<>>
    /\ questions = <<>>
    /\ diagram_log = <<>>
    /\ question_log = <<>>
    /\ processed_exam = EmptyExam
    /\ NoAnswersYet

NextTests ==
    \/ CreateTest(1)
    \/ TestUploadPdf(1)
    \/ DeleteTest(1)
    \/ ProcessQuestions(1)
    \/ StartTestSessionCheck(1)
    \/ StartTestSessionAdd(1)
    \/ SubmitTestCheck(1)
    \/ SubmitTestScore(1)

SpecTests == InitTests /\ [][NextTests]_vars

(***************************************************************************)
(* Properties                                                              *)
(***************************************************************************)
\* The items the pages of a log reported, failed pages contributing none.
Reported(log) == Flatten([k \in 1..Len(log) |-> IF log[k].ok THEN log[k].items ELSE <<>>])

\* C1: when _extract_diagrams has returned, its result is exactly the
\* diagrams reported by the pages whose call did not fail, in page order;
\* a failed page discards nothing of the other pages.
C1_DiagramFailureIsolation ==
    pc = "diagrams_done" => diagrams = Reported(diagram_log)

\* C2: when _extract_questions has returned, its result is exactly the
\* questions reported by the pages whose call did not fail, in page order.
C2_QuestionFailureIsolation ==
    pc = "questions_done" => questions = Reported(question_log)

\* The questions whose iteration of the answer loop is over.
Finished == 1..Len(updated_questions)

AnswerKeys == {"correct_answer", "explanation", "hint", "confidence"}

\* How many free-text requests were sent for question k.
FreeTextRequests(k) ==
    Cardinality({n \in 1..Len(requests) :
                    requests[n].function = "" /\ requests[n].item = k})

\* The JSON objects a free-text response holds between its first opening
\* brace and its last closing brace (at most one).
EmbeddedObjects(resp) ==
    IF resp.kind # "text" THEN {}
    ELSE {a \in AnswerObjects :
            \E m \in 1..Len(resp.text) : \E n \in m..Len(resp.text) :
                /\ SubSeq(resp.text, m, n) = Object(a)
                /\ \A b \in 1..(m - 1) : resp.text[b] # LBrace
                /\ \A b \in (n + 1)..Len(resp.text) : resp.text[b] # RBrace}

\* Every answer member the object has is a string or null.
WellTyped(a) == \A f \in DOMAIN a \cap AnswerKeys : a[f].ty \in {"str", "null"}

\* a.get(f) as an Optional[str]
Member(a, f) == IF f \in DOMAIN a /\ a[f].ty = "str" THEN Some(a[f].s) ELSE None

\* Every answer member the object has was copied into the question.
CopiedFrom(q, a) == WellTyped(a) /\ \A f \in DOMAIN a \cap AnswerKeys : q[f] = Member(a, f)

\* The question with the object's members as its answer fields, confidence
\* being UNSURE when the object has no such member.
WithMembers(q, a) ==
    [q EXCEPT !.correct_answer = Member(a, "correct_answer"),
              !.explanation = Member(a, "explanation"),
              !.hint = Member(a, "hint"),
              !.confidence = IF "confidence" \in DOMAIN a
                             THEN Member(a, "confidence") ELSE Some("UNSURE")]

Unanswered(q) ==
    q.correct_answer = None /\ q.explanation = None /\ q.hint = None /\ q.confidence = None

FullyAnswered(q) ==
    q.correct_answer # None /\ q.explanation # None /\ q.hint # None /\ q.confidence # None

\* A free-text request is sent exactly once for a question whose
\* function-calling request raised and never otherwise.
FallbackOnlyOnRaise ==
    /\ \A k \in Finished :
         FreeTextRequests(k) = (IF answer_log[k].structured.kind = "raise" THEN 1 ELSE 0)
    /\ \A k \in 1..Len(answer_log) : FreeTextRequests(k) <= 1

\* C3 as stated: one free-text request exactly when the function-calling
\* request raised, and whenever a JSON object is located and parsed in the
\* free text the four answer fields are populated from it.
C3_Original_ParsedObjectPopulates ==
    /\ FallbackOnlyOnRaise
    /\ \A k \in Finished : \A a \in EmbeddedObjects(answer_log[k].fallback) :
         CopiedFrom(updated_questions[k], a)

\* C3 as amended: one free-text request exactly when the function-calling
\* request raised; when a JSON object is located and parsed in the free
\* text and its answer members are strings or null, correct_answer,
\* explanation and hint are its members (unset where absent or null) and
\* confidence is its member, or UNSURE when it has none; when a member is
\* of another type the question is emitted unanswered.
C3_ParsedObjectPopulates ==
    /\ FallbackOnlyOnRaise
    /\ \A k \in Finished : \A a \in EmbeddedObjects(answer_log[k].fallback) :
         updated_questions[k] =
            IF WellTyped(a) THEN WithMembers(processed_exam.questions[k], a)
            ELSE processed_exam.questions[k]

C3_Witness ==
    \E k \in Finished :
        /\ answer_log[k].structured.kind = "raise"
        /\ FreeTextRequests(k) = 1
        /\ PlainAnswer \in EmbeddedObjects(answer_log[k].fallback)
        /\ Len(answer_log[k].fallback.text) > 3
        /\ updated_questions[k].correct_answer = Some("B")
        /\ updated_questions[k].confidence = Some("UNSURE")

\* C4: a question whose function-calling request raised and whose
\* free-text response holds no JSON object, or text between braces that
\* does not parse, gets correct_answer and confidence UNSURE and the fixed
\* explanation and hint.
C4_UnparsedTextGivesDefaults ==
    \A k \in Finished :
        (/\ answer_log[k].structured.kind = "raise"
         /\ answer_log[k].fallback.kind \in {"text", "no_content"}
         /\ EmbeddedObjects(answer_log[k].fallback) = {})
        => updated_questions[k] =
             [processed_exam.questions[k] EXCEPT
                !.correct_answer = Some("UNSURE"),
                !.confidence = Some("UNSURE"),
                !.explanation =
                    Some("Unable to determine correct answer due to processing issues"),
                !.hint =
                    Some("Please review the question carefully and consult your study materials")]

C4_Witness ==
    \E k \in Finished : \E j \in Finished :
        /\ answer_log[k].structured.kind = "raise"
        /\ answer_log[k].fallback = Text(<<Words>>)
        /\ answer_log[j].structured.kind = "raise"
        /\ answer_log[j].fallback = Text(Object(PlainAnswer) \o <<Words>> \o Object(FullAnswer))
        /\ updated_questions[k].correct_answer = Some("UNSURE")
        /\ updated_questions[j].confidence = Some("UNSURE")

\* Both requests of question k raised.
BothRaised(k) ==
    answer_log[k].structured.kind = "raise" /\ answer_log[k].fallback.kind = "raise"

\* The function-calling request of question k returned a call with all
\* four members as strings.
Succeeded(k) ==
    /\ answer_log[k].structured.kind = "call"
    /\ AnswerKeys \subseteq DOMAIN answer_log[k].structured.payload
    /\ \A f \in AnswerKeys : answer_log[k].structured.payload[f].ty = "str"

\* C5: a question whose function-calling and free-text requests both
\* raise is emitted exactly as the Linker produced it, with no answer field
\* set, and every other question whose own request succeeded is fully
\* answered.
C5_ItemIsolation ==
    \A k \in Finished :
        /\ BothRaised(k) =>
             /\ updated_questions[k] = processed_exam.questions[k]
             /\ Unanswered(updated_questions[k])
        /\ Succeeded(k) => FullyAnswered(updated_questions[k])

C5_Witness ==
    /\ pc = "answers_done"
    /\ \E k \in Finished : \E j \in Finished :
        /\ k < j
        /\ Succeeded(k) /\ BothRaised(j)
        /\ FullyAnswered(final_exam.questions[k])
        /\ Unanswered(final_exam.questions[j])

\* C6 as stated: whenever the function-calling request returns, all four
\* answer fields are populated from its response.
C6_Original_StructuredPopulates ==
    \A k \in Finished :
        answer_log[k].structured.kind # "raise" =>
            /\ FullyAnswered(updated_questions[k])
            /\ answer_log[k].structured.kind = "call"
            /\ CopiedFrom(updated_questions[k], answer_log[k].structured.payload)

\* C6 as amended: when the function-calling request returns a function
\* call whose arguments are a JSON object with answer members that are
\* strings or null, correct_answer, explanation and hint are its members
\* (unset where absent or null) and confidence is its member, or UNSURE
\* when it has none; a response with no function call, with arguments that
\* are not JSON, or with a member of another type leaves the question
\* unanswered.
C6_StructuredPopulates ==
    \A k \in Finished :
        answer_log[k].structured.kind # "raise" =>
            updated_questions[k] =
                IF /\ answer_log[k].structured.kind = "call"
                   /\ WellTyped(answer_log[k].structured.payload)
                THEN WithMembers(processed_exam.questions[k],
                                 answer_log[k].structured.payload)
                ELSE processed_exam.questions[k]

C6_Witness ==
    \E k \in Finished : \E j \in Finished :
        /\ answer_log[k].structured = Call(FullAnswer)
        /\ updated_questions[k].correct_answer = Some("A")
        /\ updated_questions[k].explanation = Some("because")
        /\ updated_questions[k].hint = Some("think")
        /\ updated_questions[k].confidence = Some("HIGH")
        /\ answer_log[j].structured = NoCall
        /\ Unanswered(updated_questions[j])

\* C7: _generate_answers returns, for every combination of responses, an
\* exam with exactly one question per input question, in the same order,
\* and never raises.
C7_NeverDropsAQuestion ==
    /\ pc # "raised"
    /\ Len(updated_questions) = question_idx
    /\ pc \in {"generate_answers", "answer_fallback"} => ENABLED NextAnswers
    /\ pc = "answers_done" =>
         /\ Len(final_exam.questions) = Len(processed_exam.questions)
         /\ \A k \in 1..Len(final_exam.questions) :
              /\ final_exam.questions[k].id = processed_exam.questions[k].id
              /\ final_exam.questions[k].page_number = k

C7_Witness ==
    /\ pc = "answers_done"
    /\ Len(final_exam.questions) = MaxPages
    /\ \A k \in Finished : BothRaised(k) /\ Unanswered(final_exam.questions[k])

\* The Linker has run.
Linked_Done == pc \in {"structured", "restructured"}

\* The summaries of the diagrams at the positions in `keep`, in the order
\* of the diagram list.
RECURSIVE SummariesAt(_, _)
SummariesAt(keep, n) ==
    IF n = 0 THEN <<>>
    ELSE SummariesAt(keep, n - 1)
         \o (IF n \in keep THEN <<DiagramSummary(diagrams[n])>> ELSE <<>>)

\* C8 as stated: after _structure_data every question embeds exactly the
\* diagrams whose question_number is set and equal to its own, in
\* discovery order, whatever the pages of the two.
C8_Original_LinkedByEquality ==
    Linked_Done =>
        /\ Len(processed_exam.questions) = Len(questions)
        /\ \A k \in 1..Len(questions) :
             processed_exam.questions[k].diagrams =
                SummariesAt({n \in 1..Len(diagrams) :
                                /\ diagrams[n].question_number # None
                                /\ diagrams[n].question_number = questions[k].question_number},
                            Len(diagrams))

\* C8 as amended: after _structure_data every question embeds exactly the
\* diagrams whose question_number is set, is not the empty string, and
\* equals its own, in discovery order, whatever the pages of the two; a
\* diagram tagged "3A" is never attached to a question tagged "3".
C8_LinkedByEquality ==
    Linked_Done =>
        /\ Len(processed_exam.questions) = Len(questions)
        /\ \A k \in 1..Len(questions) :
             processed_exam.questions[k].diagrams =
                SummariesAt({n \in 1..Len(diagrams) :
                                /\ diagrams[n].question_number \notin {None, Some("")}
                                /\ diagrams[n].question_number = questions[k].question_number},
                            Len(diagrams))

C8_Witness ==
    /\ Linked_Done
    /\ \E k \in 1..Len(questions) : \E n \in 1..Len(diagrams) : \E m \in 1..Len(diagrams) :
        /\ questions[k].question_number = Some("3")
        /\ diagrams[n].question_number = Some("3")
        /\ diagrams[n].page_number # questions[k].page_number
        /\ diagrams[m].question_number = Some("3A")
        /\ processed_exam.questions[k].diagrams = <<DiagramSummary(diagrams[n])>>

\* Whether a diagram is among the diagrams embedded in a question.
Attached(diagram, question) ==
    \E n \in 1..Len(question.diagrams) : question.diagrams[n] = DiagramSummary(diagram)

\* C9: a diagram whose question_number is None is attached to no
\* question, and a question whose question_number is None receives no
\* diagram, also when both are None.
C9_NoneNeverMatches ==
    Linked_Done =>
        /\ \A n \in 1..Len(diagrams) : \A k \in 1..Len(processed_exam.questions) :
             diagrams[n].question_number = None
                => ~Attached(diagrams[n], processed_exam.questions[k])
        /\ \A k \in 1..Len(processed_exam.questions) :
             processed_exam.questions[k].question_number = None
                => processed_exam.questions[k].diagrams = <<>>

C9_Witness ==
    /\ Linked_Done
    /\ \E n \in 1..Len(diagrams) : \E k \in 1..Len(processed_exam.questions) :
        /\ diagrams[n].question_number = None
        /\ processed_exam.questions[k].question_number = None
        /\ processed_exam.questions[k].diagrams = <<>>
    /\ \E k \in 1..Len(processed_exam.questions) :
        processed_exam.questions[k].diagrams # <<>>

\* C10: after the Linker, and in the exam process_pdf returns,
\* metadata.total_questions is the number of questions, whatever the
\* metadata call returned and whatever the later stages did.
C10_TotalQuestionsIsCount ==
    /\ pc \in {"structured", "generate_answers", "answer_fallback", "answers_done",
               "returned"}
         => /\ processed_exam.metadata.total_questions = Some(Len(processed_exam.questions))
            /\ Len(processed_exam.questions) = Len(questions)
    /\ pc \in {"answers_done", "returned"}
         => final_exam.metadata.total_questions = Some(Len(final_exam.questions))

C10_Witness ==
    /\ pc = "returned"
    /\ final_exam.metadata.subject = Some("Physics")
    /\ Len(final_exam.questions) = 2
    /\ final_exam.metadata.total_questions = Some(2)
    /\ \E k \in 1..2 : Unanswered(final_exam.questions[k])

\* C11: the Linker is idempotent.  Running _structure_data a second time on
\* the same metadata, diagrams and questions leaves the questions, the
\* diagrams and the metadata as the first run made them, and running it on
\* the questions of its own output, with the same diagrams, gives that
\* output again.
C11_LinkerIdempotent ==
    /\ [](Linked_Done =>
            StructureData(metadata, diagrams, processed_exam.questions) = processed_exam)
    /\ [][pc = "structured" /\ pc' = "restructured"
            => processed_exam' = processed_exam /\ metadata' = metadata]_vars

C11_Witness ==
    /\ pc = "restructured"
    /\ metadata.total_questions = Some(2)
    /\ Len(diagrams) = 2
    /\ \E k \in 1..Len(processed_exam.questions) :
         Len(processed_exam.questions[k].diagrams) = 2

\* The metadata request has been answered by `resp`.
MetadataAnswered(resp) == metadata_log = <<resp>>

\* The positions of process_pdf before the Linker has counted the questions.
BeforeLinker ==
    pc \in {"metadata_done", "extract_diagrams", "diagrams_done", "extract_questions",
            "questions_done", "structure"}

\* The minimal metadata, as _extract_metadata returns it and as it is once
\* the Linker has set total_questions.
MinimalMetadata ==
    IF BeforeLinker THEN metadata = UntitledExam
    ELSE /\ metadata = [UntitledExam EXCEPT !.total_questions = Some(Len(questions))]
         /\ processed_exam.metadata = metadata
         /\ pc \in {"answers_done", "returned"} => final_exam.metadata = metadata

\* process_pdf has not raised, and goes on until it returns.
StillCompletes == pc # "raised" /\ (pc # "returned" => ENABLED Next)

StrMembers == {"subject", "topic", "difficulty_level"}
IntMembers == {"total_questions", "duration_minutes"}

\* A payload that violates the schema of extract_exam_metadata: no title,
\* or a member whose JSON type is not the declared one (null apart).
ViolatesSchema(m) ==
    \/ "title" \notin DOMAIN m
    \/ m.title.ty # "str"
    \/ \E f \in StrMembers \cap DOMAIN m : m[f].ty \notin {"str", "null"}
    \/ \E f \in IntMembers \cap DOMAIN m : m[f].ty \notin {"int", "null"}

\* A payload ExamMetadata cannot be built from: no title or a title that is
\* not a string, or a member that cannot be converted to its declared
\* type (a string that is a numeral is converted to an integer).
NotConvertible(m) ==
    \/ "title" \notin DOMAIN m
    \/ m.title.ty # "str"
    \/ \E f \in StrMembers \cap DOMAIN m : m[f].ty \notin {"str", "null"}
    \/ \E f \in IntMembers \cap DOMAIN m :
         /\ m[f].ty \notin {"int", "null"}
         /\ ~(m[f].ty = "str" /\ m[f].s \in {"7", "60"})

\* C12 as stated: if the metadata call raises (or times out), returns no
\* function call or unparsable arguments, or returns a payload that
\* violates the schema (missing title, wrongly typed field), then
\* _extract_metadata returns title "Untitled Exam" with every other field
\* unset, and process_pdf still completes.
C12_Original_MetadataDegradation ==
    \A resp \in MetadataResponses :
        /\ MetadataAnswered(resp)
        /\ resp.kind # "call" \/ ViolatesSchema(resp.payload)
        => MinimalMetadata /\ StillCompletes

\* C12 as amended: if the metadata call raises (or times out), returns no
\* function call or unparsable arguments, or returns a payload from which
\* ExamMetadata cannot be built (missing or non-string title, a member
\* that cannot be converted to its declared type), then _extract_metadata
\* returns title "Untitled Exam" with every other field unset, and
\* process_pdf still completes; a numeral string given for an integer
\* member is converted and the payload is accepted.
C12_MetadataDegradation ==
    /\ \A resp \in MetadataResponses :
          /\ MetadataAnswered(resp)
          /\ resp.kind # "call" \/ NotConvertible(resp.payload)
          => MinimalMetadata /\ StillCompletes
    /\ MetadataAnswered(Call(NumeralCount))
          => /\ metadata.title = "Exam"
             /\ BeforeLinker => metadata.total_questions = Some(7)
             /\ StillCompletes

C12_Witness ==
    /\ pc = "returned"
    /\ MetadataAnswered(Call(ArrayCount))
    /\ final_exam.metadata.title = "Untitled Exam"
    /\ final_exam.metadata.total_questions = Some(2)
    /\ \E k \in 1..2 : FullyAnswered(final_exam.questions[k])

\* The questions built so far by _generate_answers, and the questions of
\* the exam it returned.
EmittedQuestions ==
    IF pc \in {"answers_done", "returned"} THEN final_exam.questions ELSE updated_questions

\* C13: every emitted question whose correct_answer is "UNSURE" has
\* confidence "UNSURE", whether the answer came from the structured
\* response or from the free text.
C13_UnsureAnswerHasUnsureConfidence ==
    \A k \in 1..Len(EmittedQuestions) :
        EmittedQuestions[k].correct_answer = Some("UNSURE")
            => EmittedQuestions[k].confidence = Some("UNSURE")

\* The set of confidence values of the Question model.
ConfidenceValues == {"HIGH", "MEDIUM", "LOW", "UNSURE"}

\* C14: every emitted question's confidence is unset or one of HIGH,
\* MEDIUM, LOW, UNSURE, for every response of the service.
C14_ConfidenceInClosedSet ==
    \A k \in 1..Len(EmittedQuestions) :
        \/ EmittedQuestions[k].confidence = None
        \/ EmittedQuestions[k].confidence \in {Some(c) : c \in ConfidenceValues}

\* _rasterize_pdf has returned.
Rasterized == pc \notin {"rasterize", "raised"}

\* C20: for a readable document of N pages, N >= 0, _rasterize_pdf
\* returns a sequence of length N whose i-th element is the image of page
\* i; a document of zero pages gives the empty sequence without an error.
C20_RasterizationPreservesPages ==
    /\ Rasterized =>
          /\ document # None
          /\ Len(images) = document[1]
          /\ \A k \in 1..Len(images) : images[k] = Base64Png([page |-> k])
    /\ document = Some(0) => pc # "raised" /\ images = <<>>

C20_Witness ==
    /\ pc = "extract_metadata"
    /\ document = Some(MaxPages)
    /\ Len(images) = MaxPages
    /\ images[1] # images[MaxPages]

\* C15: only rasterization is fatal.  process_pdf raises exactly when the
\* document cannot be rasterized, and then nothing has been requested and
\* no exam is produced; on a readable document no failure of the metadata,
\* diagram, question or answer requests makes it raise or stop, and what
\* it returns is a complete exam (metadata, diagrams, questions).
C15_OnlyRasterizationIsFatal ==
    /\ pc = "raised" =>
          /\ document = None
          /\ requests = <<>>
          /\ processed_exam = EmptyExam /\ final_exam = EmptyExam
    /\ document = None => pc \in {"rasterize", "raised"}
    /\ document # None /\ pc # "returned" => ENABLED Next
    /\ pc = "returned" =>
          /\ final_exam.metadata = metadata
          /\ final_exam.metadata.title # ""
          /\ final_exam.diagrams = diagrams
          /\ Len(final_exam.questions) = Len(questions)

C15_Witness ==
    /\ pc = "returned"
    /\ metadata_log = <<Raises>>
    /\ \E k \in 1..Len(diagram_log) : ~diagram_log[k].ok
    /\ \A k \in 1..Len(question_log) : question_log[k].ok
    /\ Len(final_exam.questions) = 2
    /\ BothRaised(1)
    /\ final_exam.metadata.title = "Untitled Exam"
    /\ final_exam.diagrams = <<>>

\* page_number never decreases along the list and lies in 1..N.
InPageOrder(list) ==
    /\ \A k \in 1..Len(list) : list[k].page_number \in 1..Len(images)
    /\ \A j \in 1..Len(list) : \A k \in j..Len(list) :
         list[j].page_number <= list[k].page_number

\* The ids the pages of a log reported under `key`, page after page and
\* within a page in the order of the response.
ResponseIds(log, key) ==
    Flatten([p \in 1..Len(log) |->
               LET l == DictGet(log[p].response.payload, key, <<>>) IN
               [k \in 1..Len(l) |-> [id |-> l[k].id.s, page_number |-> p]]])

IdsAndPages(list) ==
    [k \in 1..Len(list) |-> [id |-> list[k].id, page_number |-> list[k].page_number]]

\* The list holds what the pages reported, in page order and within a page
\* in response order (when the loop was logged and no page of it failed).
InResponseOrder(list, log, key) ==
    log # <<>> /\ (\A p \in 1..Len(log) : log[p].ok)
        => IdsAndPages(list) = ResponseIds(log, key)

\* C17: the diagram list and the question list are in non-decreasing
\* page_number order with page_number in 1..N, page i before page i+1 and
\* within a page in response order, and the questions _generate_answers
\* emits are the questions of the Linker, in the same order.
C17_DeterministicOrder ==
    /\ InPageOrder(diagrams) /\ InResponseOrder(diagrams, diagram_log, "diagrams")
    /\ InPageOrder(questions) /\ InResponseOrder(questions, question_log, "questions")
    /\ Len(EmittedQuestions) <= Len(processed_exam.questions)
    /\ pc \in {"answers_done", "returned"}
         => Len(EmittedQuestions) = Len(processed_exam.questions)
    /\ \A k \in 1..Len(EmittedQuestions) :
         /\ EmittedQuestions[k].id = processed_exam.questions[k].id
         /\ EmittedQuestions[k].page_number = processed_exam.questions[k].page_number
         /\ EmittedQuestions[k].question_text = processed_exam.questions[k].question_text
         /\ EmittedQuestions[k].options = processed_exam.questions[k].options

C17_Witness ==
    /\ pc = "questions_done"
    /\ Len(question_log) = 2
    /\ Len(questions) = 3
    /\ questions[1].id # questions[2].id
    /\ questions[1].page_number = 1 /\ questions[2].page_number = 1
    /\ questions[3].page_number = 2

\* The stage a request belongs to.
StageOf(request) ==
    CASE request.function = "extract_exam_metadata" -> 1
      [] request.function = "extract_diagrams" -> 2
      [] request.function = "extract_questions" -> 3
      [] OTHER -> 4

\* An extraction loop is over: every page was requested, or the last
\* requested page failed.
LoopOver(log) == Len(log) = Len(images) \/ (log # <<>> /\ ~log[Len(log)].ok)

\* The Linker has produced processed_exam.
AfterLinker ==
    pc \in {"structured", "generate_answers", "answer_fallback", "answers_done",
            "returned"}

\* C19: no request is issued before rasterization has completed, the
\* requests are issued stage after stage, the Linker runs only after the
\* metadata, diagram and question stages have finished, every answer
\* request comes after the Linker and works on the linked questions, and
\* the exam is returned only after the answer stage has processed every
\* question.
C19_StageOrdering ==
    /\ requests # <<>> => Rasterized /\ images = PageImages(document[1])
    /\ \A j \in 1..Len(requests) : \A k \in j..Len(requests) :
         StageOf(requests[j]) <= StageOf(requests[k])
    /\ pc = "structure" \/ AfterLinker =>
          /\ metadata_log # <<>>
          /\ LoopOver(diagram_log) /\ LoopOver(question_log)
    /\ AfterLinker => processed_exam.diagrams = diagrams
                      /\ Len(processed_exam.questions) = Len(questions)
    /\ (\E k \in 1..Len(requests) : StageOf(requests[k]) = 4) => AfterLinker
    /\ answer_log # <<>> => AfterLinker
    /\ \A k \in 1..Len(EmittedQuestions) :
         EmittedQuestions[k].diagrams = processed_exam.questions[k].diagrams
    /\ pc = "returned" =>
          /\ Len(answer_log) = Len(processed_exam.questions)
          /\ Len(final_exam.questions) = Len(processed_exam.questions)
          /\ \A k \in 1..Len(answer_log) :
               \E r \in 1..Len(requests) :
                  requests[r].function = "generate_answer_and_hint" /\ requests[r].item = k

C19_Witness ==
    /\ pc = "returned"
    /\ {StageOf(requests[k]) : k \in 1..Len(requests)} = 1..4
    /\ \E k \in 1..Len(requests) : requests[k].function = ""
    /\ Len(final_exam.questions) = 2
    /\ final_exam.questions[1].diagrams # <<>>
    /\ FullyAnswered(final_exam.questions[2])

\* A request of `function` for every page of the document is in the log.
EveryPageIssued(function) ==
    \A p \in 1..Len(images) :
        \E r \in 1..Len(requests) : requests[r] = PageRequest(function, p, images)

DiagramStageOver ==
    pc \in {"diagrams_done", "extract_questions", "questions_done", "structure"}
       \/ AfterLinker

QuestionStageOver == pc \in {"questions_done", "structure"} \/ AfterLinker

\* C18, the part about waiting units: the requests are issued one at a
\* time, and a unit of work that waits for its turn (a page of an
\* extraction loop, a question of the answer loop) is issued in the end
\* rather than dropped: when a stage is over, a request has been issued
\* for every one of its units.
C18_WaitingUnitsAreIssued ==
    /\ DiagramStageOver => EveryPageIssued("extract_diagrams")
    /\ QuestionStageOver => EveryPageIssued("extract_questions")
    /\ pc \in {"answers_done", "returned"} =>
          \A k \in 1..Len(processed_exam.questions) :
              \E r \in 1..Len(requests) :
                 requests[r] = Request("generate_answer_and_hint", k, <<>>)

\* upload_pdf has returned or raised.
UploadOver == upload_pc = "done"

\* C16: on every exit path of upload_pdf after the temporary directory
\* has been created (success, processing failure, failure while saving
\* the upload, database failure, cancellation), the temporary directory
\* and the temporary PDF no longer exist once upload_pdf has returned or
\* raised.
C16_TempReleased ==
    UploadOver => TempDir \notin files /\ TempFile \notin files

\* No two items of the list that come from the same page share an id.
UniqueIdsPerPage(list) ==
    \A j \in 1..Len(list) : \A k \in 1..Len(list) :
        j # k /\ list[j].page_number = list[k].page_number => list[j].id # list[k].id

\* C21: in the diagram list and the question list the extraction stages
\* build, no two diagrams extracted from the same page share an id and no
\* two questions extracted from the same page share an id, for every
\* response of the service.
C21_IdsUniquePerPage ==
    UniqueIdsPerPage(diagrams) /\ UniqueIdsPerPage(questions)

\* C22: in every exam _generate_answers returns, every question whose
\* correct_answer is set has a non-empty options sequence.
C22_AnsweredQuestionHasOptions ==
    pc \in {"answers_done", "returned"} =>
        \A k \in 1..Len(final_exam.questions) :
            final_exam.questions[k].correct_answer # None
                => final_exam.questions[k].options # <<>>

\* C23: every diagram of the list carries the 1-based number of the page
\* whose request reported it and that page's image, never the number or
\* the image of another page.
C23_DiagramTaggedWithItsPage ==
    /\ \A k \in 1..Len(diagrams) :
         /\ diagrams[k].page_number \in 1..Len(images)
         /\ diagrams[k].base64_image = images[diagrams[k].page_number]
         /\ diagrams[k].base64_image = Base64Png([page |-> diagrams[k].page_number])
    /\ \A p \in 1..Len(diagram_log) :
         /\ requests[p].images = <<images[p]>>
         /\ \A k \in 1..Len(diagram_log[p].items) :
              /\ diagram_log[p].items[k].page_number = p
              /\ diagram_log[p].items[k].id = diagram_log[p].response.payload.diagrams[k].id.s
    /\ diagram_log # <<>> /\ (\A p \in 1..Len(diagram_log) : diagram_log[p].ok)
         => diagrams = Reported(diagram_log)

C23_Witness ==
    /\ pc = "diagrams_done"
    /\ Len(diagrams) = 3
    /\ diagrams[1].page_number = 1 /\ diagrams[2].page_number = 2
    /\ diagrams[3].page_number = 2
    /\ diagrams[1].base64_image # diagrams[2].base64_image
    /\ diagrams[2].base64_image = diagrams[3].base64_image

\* The positions of the metadata requests in the log.
MetadataRequests ==
    {r \in 1..Len(requests) : requests[r].function = "extract_exam_metadata"}

\* _extract_metadata has returned.
MetadataStageOver == pc \notin {"rasterize", "raised", "extract_metadata"}

\* C24: a pipeline run issues exactly one metadata request, and that
\* request carries exactly the first min(3, N) page images of the N-page
\* sequence, in page order.
C24_OneMetadataRequestWithPrefix ==
    /\ ~MetadataStageOver /\ ~in_flight => MetadataRequests = {}
    /\ MetadataStageOver \/ (pc = "extract_metadata" /\ in_flight) =>
          /\ MetadataRequests = {1}
          /\ Len(requests[1].images) = (IF Len(images) < 3 THEN Len(images) ELSE 3)
          /\ \A k \in 1..Len(requests[1].images) :
               /\ requests[1].images[k] = images[k]
               /\ requests[1].images[k] = Base64Png([page |-> k])

C24_Witness ==
    /\ pc = "returned"
    /\ Len(images) = 4
    /\ Len(requests) = 9
    /\ requests[1].images = <<"png1", "png2", "png3">>

\* The question with its four answer fields unset.
WithoutAnswer(q) ==
    [q EXCEPT !.correct_answer = None, !.explanation = None, !.hint = None,
              !.confidence = None]

\* C25: answer synthesis changes only the answer fields.  Every question
\* _generate_answers emits has the id, question_text, options,
\* page_number, question_number, diagram_ids and diagrams of the Linker's
\* question at the same position, and the returned exam has the Linker's
\* metadata and diagram list.
C25_AnswersChangeOnlyAnswerFields ==
    /\ \A k \in 1..Len(EmittedQuestions) :
         /\ WithoutAnswer(EmittedQuestions[k]) = WithoutAnswer(processed_exam.questions[k])
         /\ EmittedQuestions[k].diagrams = processed_exam.questions[k].diagrams
         /\ EmittedQuestions[k].options = processed_exam.questions[k].options
    /\ pc \in {"answers_done", "returned"} =>
          /\ Len(final_exam.questions) = Len(processed_exam.questions)
          /\ final_exam.metadata = processed_exam.metadata
          /\ final_exam.diagrams = processed_exam.diagrams

C25_Witness ==
    /\ pc = "answers_done"
    /\ Len(final_exam.questions) = 2
    /\ FullyAnswered(final_exam.questions[1])
    /\ final_exam.questions[1].diagrams # <<>>
    /\ final_exam.questions[1] # processed_exam.questions[1]
    /\ final_exam.questions[2] = processed_exam.questions[2]
    /\ final_exam.diagrams # <<>>

\* C26: the free-text request is issued only for a question whose
\* function-calling request raised.  When that request returns a response
\* with no function call, or with arguments that are not JSON, no
\* free-text request is issued and the question is emitted with its four
\* answer fields unset, not with the UNSURE defaults.
C26_FallbackOnlyWhenStructuredRaises ==
    /\ \A k \in 1..Len(answer_log) :
         /\ answer_log[k].fallback # NotIssued => answer_log[k].structured.kind = "raise"
         /\ FreeTextRequests(k) > 0 => answer_log[k].structured.kind = "raise"
    /\ \A k \in Finished :
         answer_log[k].structured.kind \in {"no_call", "bad_json"}
            => /\ answer_log[k].fallback = NotIssued
               /\ FreeTextRequests(k) = 0
               /\ Unanswered(updated_questions[k])
               /\ updated_questions[k] = processed_exam.questions[k]

C26_Witness ==
    /\ pc = "answers_done"
    /\ Len(answer_log) = 2
    /\ answer_log[1].structured = NoCall
    /\ answer_log[2].structured = BadJson
    /\ Unanswered(final_exam.questions[1]) /\ Unanswered(final_exam.questions[2])
    /\ \A r \in 1..Len(requests) : requests[r].function # ""

\* The metadata with its question count unset.
WithoutCount(md) == [md EXCEPT !.total_questions = None]

\* C27: the Linker changes nothing but the embedded diagrams and the
\* question count.  Its exam has the extractor's questions, as many and in
\* the same order, with every field other than diagrams unchanged, the
\* diagram list unchanged, and every metadata field other than
\* total_questions as _extract_metadata returned it.
C27_LinkerChangesOnlyDiagramsAndCount ==
    AfterLinker =>
        /\ Len(processed_exam.questions) = Len(questions)
        /\ \A k \in 1..Len(questions) :
             [processed_exam.questions[k] EXCEPT !.diagrams = questions[k].diagrams]
                = questions[k]
        /\ processed_exam.diagrams = diagrams
        /\ (\A p \in 1..Len(diagram_log) : diagram_log[p].ok)
             => diagrams = Reported(diagram_log)
        /\ (\A p \in 1..Len(question_log) : question_log[p].ok)
             => questions = Reported(question_log)
        /\ WithoutCount(processed_exam.metadata) = WithoutCount(MetadataOutcome(metadata_log[1]))
        /\ WithoutCount(metadata) = WithoutCount(MetadataOutcome(metadata_log[1]))

C27_Witness ==
    /\ pc = "structured"
    /\ metadata_log = <<Call(FullMetadata)>>
    /\ processed_exam.metadata.subject = Some("Physics")
    /\ processed_exam.metadata.total_questions = Some(2)
    /\ Len(processed_exam.diagrams) = 2
    /\ Len(processed_exam.questions[1].diagrams) = 2
    /\ questions[1].diagrams = <<>>

\* The error record the inner except clause stores in questions_json.
ErrorJson ==
    [kind |-> "error", questions |-> <<>>, total_questions |-> 0,
     processing_status |-> "failed"]

\* The exam carries the failure and nothing of the upload.
MarkedFailed(e) ==
    /\ e.questions_json = ErrorJson
    /\ e.pdf_filename = StoredExam.pdf_filename
    /\ e.title = StoredExam.title

\* process_pdf raised inside upload_pdf: an exception of the rasterization,
\* or the CancelledError of a cancelled request.
ProcessPdfRaised == pc = "raised" \/ outcome = "cancelled"

\* C28 as stated: whenever process_pdf raises inside upload_pdf, the exam
\* ends with status "processing_failed" and questions_json holding the
\* error with an empty question list, the PDF is not copied to the upload
\* directory, and pdf_filename and title are unchanged; status "processed"
\* is set only after process_pdf has returned an artifact.
C28_Original_StatusAfterFailure ==
    /\ UploadOver /\ ProcessPdfRaised =>
          /\ exam_obj.status = Some("processing_failed")
          /\ MarkedFailed(exam_obj)
          /\ MarkedFailed(db_exam)
          /\ PermanentFile \notin files
    /\ exam_obj.status = Some("processed") => pc = "returned"

\* C28 as amended: whenever process_pdf raises an Exception inside
\* upload_pdf, the exam object gets status "processing_failed" and
\* questions_json holding the error with an empty question list, the PDF
\* is not copied, and pdf_filename and title are unchanged; that is what
\* upload_pdf commits and returns.  If the commit raises, the session is
\* rolled back, the stored exam keeps its old questions_json and
\* upload_pdf raises.  If process_pdf is cancelled, no except clause runs
\* and the exam is left as it was, without a status.  Status "processed"
\* is set only after process_pdf has returned an artifact, which is then
\* the exam's questions_json, and the PDF has been copied.
C28_StatusAfterFailure ==
    /\ pc = "raised" /\ upload_pc \in {"commit", "finally", "done"} =>
          /\ exam_obj.status = Some("processing_failed")
          /\ exam_obj.pdf_filename = StoredExam.pdf_filename
          /\ exam_obj.title = StoredExam.title
          /\ db_exam.pdf_filename = StoredExam.pdf_filename
          /\ db_exam.title = StoredExam.title
          /\ PermanentFile \notin files
    /\ pc = "raised" /\ upload_pc = "commit" => MarkedFailed(exam_obj)
    /\ pc = "raised" /\ outcome = "returned" => MarkedFailed(exam_obj) /\ MarkedFailed(db_exam)
    /\ pc = "raised" /\ outcome = "http_error" =>
          /\ Columns(exam_obj) = db_exam
          /\ db_exam = StoredExam \/ MarkedFailed(db_exam)
    /\ outcome = "cancelled" =>
          /\ exam_obj = SessionExam(StoredExam)
          /\ db_exam = StoredExam
          /\ PermanentFile \notin files
    /\ exam_obj.status = Some("processed") =>
          /\ pc = "returned"
          /\ PermanentFile \in files
          /\ upload_pc = "commit" \/ outcome = "returned" =>
                /\ exam_obj.questions_json = [kind |-> "exam", artifact |-> final_exam]
                /\ exam_obj.title = final_exam.metadata.title
                /\ exam_obj.pdf_filename = Some(Filename)

C28_Witness ==
    /\ UploadOver
    /\ pc = "raised"
    /\ outcome = "returned"
    /\ exam_obj.status = Some("processing_failed")
    /\ db_exam.questions_json = ErrorJson
    /\ db_exam.title = "Draft"
    /\ files = {}

\* The attempts that a submit_test has completed.
Completed == {a \in DOMAIN attempts : attempts[a].completed_at # None}

\* The stored results of one session.
AttemptResults(a) == {k \in DOMAIN question_results : question_results[k].attempt_id = a}

\* What is stored: a result has a mark only with a submitted answer that
\* equals the correct answer, and none without a submitted answer; the
\* score of a submitted session is the number of its marks, between 0 and
\* max_score, the number of its stored results.
ScoredBySubmittedAnswers ==
    /\ \A k \in DOMAIN question_results :
          LET r == question_results[k] IN
          /\ r.marks_obtained \in {0, 1}
          /\ r.marks_obtained = 1 =>
                /\ r.user_answer # None
                /\ r.user_answer = r.correct_answer
          /\ r.user_answer = None => r.marks_obtained = 0
    /\ \A a \in Completed :
          /\ attempts[a].max_score = Some(Cardinality(AttemptResults(a)))
          /\ attempts[a].total_score =
                Some(Cardinality({k \in AttemptResults(a) :
                                    question_results[k].marks_obtained = 1}))
          /\ attempts[a].total_score[1] >= 0
          /\ attempts[a].total_score[1] <= attempts[a].max_score[1]

\* What a submit_test call stores: one result per question of the test, in
\* order, each with the answer the request holds for the question's id;
\* max_score is the number of questions.
StoresOneResultPerQuestion ==
    \A c \in Callers :
        calls[c].at = "score" /\ attempts' # attempts =>
            /\ attempts'[calls[c].session_id].max_score = Some(Len(calls[c].questions))
            /\ Len(question_results') = Len(question_results) + Len(calls[c].questions)
            /\ \A k \in 1..Len(calls[c].questions) :
                  LET r == question_results'[Len(question_results) + k] IN
                  /\ r.attempt_id = calls[c].session_id
                  /\ r.question_id = calls[c].questions[k].id
                  /\ r.correct_answer = calls[c].questions[k].correct_answer
                  /\ r.user_answer = AnswersGet(calls[c].answers, r.question_id)

ResultsOf(a, question_id) ==
    {k \in DOMAIN question_results :
        /\ question_results[k].attempt_id = a
        /\ question_results[k].question_id = question_id}

\* C30: for every user and test there is never more than one TestAttempt
\* with completed_at unset, whatever the calls of start_test_session and
\* submit_test and however they interleave; and a session is submitted at
\* most once (its questions have one stored result each).
C30_AtMostOneOpenAttempt ==
    /\ \A user \in Users, test_id \in TestIds :
          Cardinality(OpenAttempts(user, test_id)) <= 1
    /\ \A a \in DOMAIN attempts, question_id \in QuestionIds :
          Cardinality(ResultsOf(a, Some(question_id))) <= 1

====
